---- MODULE Spec2Model ----
(***************************************************************************)
(* The sync engine of plat-telemetry: the upstream poller (sync poll), the *)
(* Taskfile poller (sync poll-taskfiles) and the webhook server (sync      *)
(* watch), each of which launches the external pipeline                    *)
(*     task sync:update   with   SUBSYSTEM=<subsystem>                      *)
(* The pipeline, the Taskfiles, the upstream repositories and the on-disk  *)
(* .version markers are the environment.                                   *)
(***************************************************************************)
EXTENDS Integers, Sequences, FiniteSets, Bags, TLC

VARIABLES
    head,         \* head SHA of master in the upstream repository of each subsystem
    desired,      \* output of `task <s>:config:version` (the Taskfile pin)
    marker,       \* <s>/.bin/.version as readVersion sees it
    pollPc,       \* Poller: "new", "checking" (inside checkAll), "idle" (waiting for the ticker)
    pollTodo,     \* repositories checkAll has still to visit in this cycle
    pollCur,      \* the checkRepo call in progress: where it is and what it has read
    tfPc,         \* TaskfilePoller: "new", "idle", "checking", "exited"
    tfSubs,       \* TaskfilePoller.subsystems
    tfIdx,        \* position of checkAll in TaskfilePoller.subsystems
    tfCur,        \* the read of the Taskfile poller in progress (in Start or in
                  \* checkSubsystem): the version its child printed
    versions,     \* TaskfilePoller.versions ("" = no entry)
    whPc,         \* webhook server: "new", "serving", "exited"
    whGo,         \* bag of webhook goroutines `go triggerUpdate(repo)` not yet run:
                  \* <<repository, tag or ref the event named>>
    pending,      \* bag of the pollers' goroutines `go triggerUpdate(subsystem)` that
                  \* have not yet started their command: <<subsystem, origin, version>>
    running,      \* bag of pipeline invocations in flight: <<subsystem, origin,
                  \* version the launching notification carried>>
    events,       \* number of environment events so far (bounded by MaxEvents)
    gitRepo,      \* the local clone gitops works on, with its origin
    gitCur,       \* the gitops call in progress: what its fetch brought
    gitOut,       \* what the last gitops call returned
    verFile,      \* the bytes of one .version marker file, or that it cannot be read
    verOut,       \* what the last call into the checker package returned
    svc,          \* the service wrapper: its program value, goroutines and child
    limited,      \* history: repositories whose latest lookup was answered with a
                  \* rate-limit error
    restarted,    \* history: per poller, whether the process has been restarted
    cycleFailed,  \* history: per poller, whether a check of the current cycle has failed
    lastKnown,    \* history: version carried by the notification that last launched a trigger
    sinceChange,  \* history: upstream-origin triggers launched for the current remote
                  \* version since the remote moved to it
    last          \* history: the last step taken and what it logged

vars == <<head, desired, marker, pollPc, pollTodo, pollCur, tfPc, tfSubs, tfIdx, tfCur,
          versions, whPc, whGo, pending, running, events, gitRepo, gitCur, gitOut, verFile,
          verOut, svc, limited, restarted, cycleFailed, lastKnown, sinceChange, last>>

---------------------------------------------------------------------------
(* Bounds of the model *)

MaxEvents == 3      \* environment events: pushes, Taskfile edits, ticks, webhook requests
MaxRunning == 2     \* pipeline invocations in flight at once, all subsystems together

---------------------------------------------------------------------------
(* Constants of the program *)

ShortLen == 7
StatusOK == 200
StatusBadRequest == 400

WebhookSecret == ""

Origins == {"poll", "taskfile", "webhook"}

Subsystems == {"arc", "liftbridge", "nats", "telegraf"}

PollerRepos == {"nats-io/nats-server", "liftbridge-io/liftbridge", "influxdata/telegraf"}

repos ==
    [r \in PollerRepos |->
        CASE r = "nats-io/nats-server" ->
                 [Subsystem |-> "nats", UseTag |-> TRUE, Branch |-> ""]
          [] r = "liftbridge-io/liftbridge" ->
                 [Subsystem |-> "liftbridge", UseTag |-> FALSE, Branch |-> "master"]
          [] r = "influxdata/telegraf" ->
                 [Subsystem |-> "telegraf", UseTag |-> FALSE, Branch |-> "master"]]

repoMap ==
    [r \in {"nats-io/nats-server", "liftbridge-io/liftbridge", "influxdata/telegraf",
            "arcopen/arc", "joeblew999/plat-telemetry"} |->
        CASE r = "nats-io/nats-server" -> "nats"
          [] r = "liftbridge-io/liftbridge" -> "liftbridge"
          [] r = "influxdata/telegraf" -> "telegraf"
          [] r = "arcopen/arc" -> "arc"
          [] r = "joeblew999/plat-telemetry" -> ""]

\* A Go map lookup of a missing key yields the zero value "".
mapRepoToSubsystem(repo) ==
    IF repo \in DOMAIN repoMap THEN repoMap[repo] ELSE ""

---------------------------------------------------------------------------
(* Inputs of the environment *)

UnknownRepo == "octocat/hello-world"

WebhookRepos == DOMAIN repoMap \cup {UnknownRepo}

\* The characters of a repository identity, for parseRepo.
RepoChars(repo) ==
    CASE repo = "nats-io/nats-server" ->
             <<"n","a","t","s","-","i","o","/","n","a","t","s","-","s","e","r","v","e","r">>
      [] repo = "liftbridge-io/liftbridge" ->
             <<"l","i","f","t","b","r","i","d","g","e","-","i","o","/",
               "l","i","f","t","b","r","i","d","g","e">>
      [] repo = "influxdata/telegraf" ->
             <<"i","n","f","l","u","x","d","a","t","a","/","t","e","l","e","g","r","a","f">>
      [] repo = "arcopen/arc" ->
             <<"a","r","c","o","p","e","n","/","a","r","c">>
      [] repo = "joeblew999/plat-telemetry" ->
             <<"j","o","e","b","l","e","w","9","9","9","/",
               "p","l","a","t","-","t","e","l","e","m","e","t","r","y">>
      [] repo = "nats-server" -> <<"n","a","t","s","-","s","e","r","v","e","r">>
      [] repo = "/telegraf" -> <<"/","t","e","l","e","g","r","a","f">>
      [] repo = "arcopen/" -> <<"a","r","c","o","p","e","n","/">>
      [] repo = "golang/go/src" -> <<"g","o","l","a","n","g","/","g","o","/","s","r","c">>
      [] OTHER ->
             <<"o","c","t","o","c","a","t","/","h","e","l","l","o","-","w","o","r","l","d">>

\* Two upstream commits (full SHAs, here 10 characters long).
ShaAbc == <<"a","b","c","1","2","3","4","f","0","0">>
ShaDef == <<"d","e","f","5","6","7","8","f","0","0">>
Shas == {ShaAbc, ShaDef}

\* Two versions a Taskfile can pin.
TagV24 == <<"v","2",".","1","0",".","2","4">>
TagV25 == <<"v","2",".","1","0",".","2","5">>
Tags == {TagV24, TagV25}

\* The commit a tag of the upstream repository points at (GitHub's tags/<tag> ref).
TagTarget(tag) == IF tag = TagV24 THEN ShaAbc ELSE ShaDef

\* Refs a push event can name.
RefMaster == <<"r","e","f","s","/","h","e","a","d","s","/","m","a","s","t","e","r">>
Refs == {RefMaster, <<"r","e","f","s","/","h","e","a","d","s","/","d","e","v">>}

\* Subsystems tracked by branch head, and those whose Taskfile has config:version.
DiscoveredSubsystems == <<"nats", "liftbridge">>
TaskfileSubs == {DiscoveredSubsystems[i] : i \in 1..Len(DiscoveredSubsystems)}

NoVer == <<>>
Unreadable == [ok |-> FALSE, commit |-> NoVer]
Recorded(hash) == [ok |-> TRUE, commit |-> hash]

---------------------------------------------------------------------------
(* Pure functions of the program *)

\* if len(commitHash) > 7 { commitHash = commitHash[:7] }
ShortHash(sha) == IF Len(sha) > ShortLen THEN SubSeq(sha, 1, ShortLen) ELSE sha

ShortHashes == {ShortHash(s) : s \in Shas}

\* parseRepo splitting at the last '/' (a mutant).
parseRepoLastSlash(repo) ==
    LET slashes == {i \in 1..Len(repo) : repo[i] = "/"}
    IN  IF slashes = {}
        THEN <<NoVer, NoVer>>
        ELSE LET i == CHOOSE k \in slashes : \A j \in slashes : k >= j
             IN  <<SubSeq(repo, 1, i - 1), SubSeq(repo, i + 1, Len(repo))>>

\* parseRepo: split at the first '/', two empty strings when there is none.
parseRepo(repo) ==
    LET slashes == {i \in 1..Len(repo) : repo[i] = "/"}
    IN  IF slashes = {}
        THEN <<NoVer, NoVer>>
        ELSE LET i == CHOOSE k \in slashes : \A j \in slashes : k <= j
             IN  <<SubSeq(repo, 1, i - 1), SubSeq(repo, i + 1, Len(repo))>>

\* github.ValidatePayload as HandleEventRequest calls it with the handler's secret:
\* the signature is checked when one is present or when a secret is configured.
\* sig is "valid" (the HMAC of the body under the secret), "invalid" or "missing".
SignatureAccepted(secret, sig) ==
    IF secret # "" \/ sig # "missing" THEN sig = "valid" ELSE TRUE

\* The status HandleWebhook answers: 400 when HandleEventRequest returns an error.
HandleStatus(kind, sig) ==
    IF kind = "malformed" \/ ~SignatureAccepted(WebhookSecret, sig)
    THEN StatusBadRequest
    ELSE StatusOK

\* triggerUpdate running task sync:update without SUBSYSTEM, which the pipeline
\* takes as every subsystem (a mutant).
InvocationAll(origin, subsystem) ==
    [cmd |-> <<"task", "sync:update">>,
     env |-> {},
     inheritsEnviron |-> origin # "webhook"]

\* The command a triggerUpdate of the given origin runs: task sync:update, with
\* SUBSYSTEM=<subsystem> appended to os.Environ() (pollers) or to nothing (webhook).
Invocation(origin, subsystem) ==
    [cmd |-> <<"task", "sync:update">>,
     env |-> {<<"SUBSYSTEM", subsystem>>},
     inheritsEnviron |-> origin # "webhook"]

NoInvocation == [cmd |-> <<>>, env |-> {}, inheritsEnviron |-> FALSE]

\* Every version a trigger of the model is started for: short commit hashes, tags,
\* the refs of push events, and the empty output of a Taskfile that pins nothing.
Versions == ShortHashes \cup Tags \cup Refs \cup {NoVer}

\* The commit a version pointer names: a short hash names itself, a tag the commit
\* it points at; a ref on its own names none.
Commit(v) == IF v \in Tags THEN ShortHash(TagTarget(v)) ELSE v

---------------------------------------------------------------------------
(* State functions *)

\* The SHA the component's remote lookup returns at this moment.
Resolved(s) == IF s = "nats" THEN TagTarget(desired["nats"]) ELSE head[s]

RECURSIVE Sum(_, _)
Sum(f, keys) ==
    IF keys = {} THEN 0
    ELSE LET k == CHOOSE x \in keys : TRUE IN f[k] + Sum(f, keys \ {k})

\* The number of invocations in flight for subsystem s, and of one origin.
InFlight(s) == Sum(running, {k \in DOMAIN running : k[1] = s})
InFlightOf(s, origin) == Sum(running, {k \in DOMAIN running : k[1] = s /\ k[2] = origin})

TotalRunning == BagCardinality(running)

\* What a step logs: the operation, the origin of the trigger it concerns, the
\* repository, the subsystem, the outcome, the version it names, for a webhook
\* request its signature and status, and the command it launched, if any.
Step(op, origin, repo, sub, res, ver, sig, status) ==
    [op |-> op, origin |-> origin, repo |-> repo, sub |-> sub, res |-> res,
     ver |-> ver, sig |-> sig, status |-> status,
     inv |-> IF res = "exec" THEN Invocation(origin, sub) ELSE NoInvocation]

\* The goroutines of the pollers that have yet to start their command, for
\* subsystem s, and the triggers of s under way: goroutines and commands.
Pending(s) == Sum(pending, {k \in DOMAIN pending : k[1] = s})
Triggered(s) == Pending(s) + InFlight(s)

\* f(x) called without `go`: the caller goes on only when f has returned, and no
\* goroutine is left behind (a mutant).
GoSync(goroutines, k) == goroutines

\* `go f(x)`: one more goroutine, which has yet to run, beside those started
\* before.
Go(goroutines, k) == goroutines (+) SetToBag({k})

\* `go triggerUpdate(subsystem)` in a poller.
Spawn(s, origin, v) ==
    /\ BagCardinality(pending) + TotalRunning < MaxRunning
    /\ pending' = Go(pending, <<s, origin, v>>)

\* cmd.CombinedOutput() starting `task sync:update`: one more invocation in flight.
Launch(s, origin, v) ==
    /\ TotalRunning < MaxRunning
    /\ running' = running (+) SetToBag({<<s, origin, v>>})

\* History of an upstream-origin (poll or webhook) trigger carrying version v.
NoteTrigger(s, v) ==
    /\ lastKnown' = [lastKnown EXCEPT ![s] = v]
    /\ sinceChange' = IF Commit(v) = ShortHash(Resolved(s)) /\ sinceChange[s] <= MaxEvents
                      THEN [sinceChange EXCEPT ![s] = @ + 1]
                      ELSE sinceChange

---------------------------------------------------------------------------
(* checker: reading the .version marker *)

MaxLines == 2       \* lines of a marker file

\* Lines a marker file can hold.
LineCommitAbc == <<"c","o","m","m","i","t",":"," ","a","b","c","1","2","3","4">>
LineCommitDef ==
    <<"c","o","m","m","i","t",":","\f","d","e","f","5","6","7","8","U+00A0"," ","\r">>
LineCommitUrl == <<"c","o","m","m","i","t",":"," ","a",":","b">>
LineTimestamp == <<"t","i","m","e",":"," ","1","3",":","4","5">>
LineChecksum == <<"c","h","e","c","k","s","u","m",":"," ","f","f">>
MarkerLines ==
    {LineCommitAbc, LineCommitDef, LineCommitUrl, LineTimestamp, LineChecksum,
     <<" ","c","o","m","m","i","t",":"," ","a","b","c">>}

\* The bytes of a file whose lines are ls, each ended by a newline.
RECURSIVE FileOf(_)
FileOf(ls) == IF ls = <<>> THEN <<>> ELSE Head(ls) \o <<"\n">> \o FileOf(Tail(ls))

\* os.ReadFile: the bytes of the file, or an error.
NoFile == [ok |-> FALSE, data |-> <<>>]
FileWith(data) == [ok |-> TRUE, data |-> data]

MarkerFiles ==
    {NoFile} \cup
    {FileWith(FileOf(ls)) : ls \in UNION {[1..n -> MarkerLines] : n \in 0..MaxLines}}

\* The marker bin:build writes for the commit abc1234.
BuiltMarker == FileWith(FileOf(<<LineCommitAbc, LineTimestamp, LineChecksum>>))

\* strings.Split(str, sep) for a one-character separator.
RECURSIVE Split(_, _)
Split(str, sep) ==
    LET at == {i \in 1..Len(str) : str[i] = sep}
    IN  IF at = {}
        THEN <<str>>
        ELSE LET i == CHOOSE k \in at : \A j \in at : k <= j
             IN  <<SubSeq(str, 1, i - 1)>> \o Split(SubSeq(str, i + 1, Len(str)), sep)

\* strings.HasPrefix
HasPrefix(str, prefix) ==
    Len(str) >= Len(prefix) /\ SubSeq(str, 1, Len(prefix)) = prefix

\* unicode.IsSpace: the characters strings.TrimSpace removes. A character is a
\* one-character string, or its code point where TLA+ has no escape for it.
WhiteSpace ==
    {"\t", "\n", "U+000B", "\f", "\r", " ", "U+0085", "U+00A0", "U+1680",
     "U+2000", "U+2001", "U+2002", "U+2003", "U+2004", "U+2005", "U+2006", "U+2007",
     "U+2008", "U+2009", "U+200A", "U+2028", "U+2029", "U+202F", "U+205F", "U+3000"}

\* strings.TrimSpace: leading and trailing white space removed.
RECURSIVE TrimSpace(_)
TrimSpace(str) ==
    IF str = <<>> THEN str
    ELSE IF Head(str) \in WhiteSpace THEN TrimSpace(Tail(str))
    ELSE IF str[Len(str)] \in WhiteSpace THEN TrimSpace(SubSeq(str, 1, Len(str) - 1))
    ELSE str

CommitPrefix == <<"c","o","m","m","i","t",":">>

\* The loop of readVersion over lines, from the first: the value of a line that
\* begins with commit: and (when exact) splits at ':' in exactly two parts, or the
\* error after the last line.
RECURSIVE ScanLines(_, _)
ScanLines(lines, exact) ==
    IF lines = <<>> THEN Unreadable
    ELSE IF /\ HasPrefix(Head(lines), CommitPrefix)
            /\ (exact => Len(Split(Head(lines), ":")) = 2)
    THEN Recorded(TrimSpace(Split(Head(lines), ":")[2]))
    ELSE ScanLines(Tail(lines), exact)

\* readVersion without `if len(parts) == 2`: the first commit: line decides, what
\* follows its second colon is dropped (a mutant).
readVersionFirstCommitLine(file) ==
    IF ~file.ok THEN Unreadable ELSE ScanLines(Split(file.data, "\n"), FALSE)

\* checker.readVersion: (commit, nil) as Recorded(commit), ("", err) as Unreadable.
readVersion(file) ==
    IF ~file.ok THEN Unreadable ELSE ScanLines(Split(file.data, "\n"), TRUE)

\* checker.GetCurrentVersion: readVersion of <cwd>/<subsystem>/.bin/.version.
GetCurrentVersion(file) == readVersion(file)

\* What a call into the checker package returned: op, and the (string, error) or
\* the report it gave.
NoCall == [op |-> "none", res |-> Unreadable]

---------------------------------------------------------------------------
(* service: the wrapper that runs `task start:fg` as a system service *)

\* prg := &program{workDir: workDir}: no command, no goroutine, no child.
NewProgram ==
    [started |-> FALSE, runPc |-> "none", cmd |-> FALSE, process |-> FALSE,
     child |-> "none", stop |-> "none", signalled |-> FALSE]

---------------------------------------------------------------------------
(* gitops: the pull helper of the library and of the CLI *)

\* A SHA shorter than the short-hash length.
GitShas == Shas \cup {<<"a","b","c">>}

\* A local clone and its origin: whether PlainOpen, Worktree, Head and the fetch
\* from origin succeed, whether the local branch has diverged from the remote
\* one, and the commits HEAD and the remote branch point to.
GitRepos ==
    [openOk : BOOLEAN, worktreeOk : BOOLEAN, headOk : BOOLEAN, fetchOk : BOOLEAN,
     diverged : BOOLEAN, local : GitShas, remote : GitShas]

CleanRepo ==
    [openOk |-> TRUE, worktreeOk |-> TRUE, headOk |-> TRUE, fetchOk |-> TRUE,
     diverged |-> FALSE, local |-> ShaAbc, remote |-> ShaAbc]

\* (hash, error) as the helpers return it, with the clone as the call left it.
GitResult(err, hash, r, upToDate) ==
    [err |-> err, hash |-> hash, repo |-> r, upToDate |-> upToDate]

NoResult ==
    [op |-> "none", prev |-> "none", err |-> "", hash |-> NoVer, upToDate |-> FALSE,
     fetched |-> NoVer]

\* What a fetch from origin brings back: whether it succeeded, the commit of the
\* remote branch, and whether the local branch has diverged from it.
Fetches == [ok : BOOLEAN, sha : GitShas, diverged : BOOLEAN]

NoFetch == [ok |-> FALSE, sha |-> ShaAbc, diverged |-> FALSE]

\* The fetch of a call made now; refOk is whether origin has the reference asked for.
Fetch(r, refOk) == [ok |-> r.fetchOk /\ refOk, sha |-> r.remote, diverged |-> r.diverged]

\* A gitops call that is waiting for origin, or none.
NoGitCall == [pc |-> "none", op |-> "none", fetch |-> NoFetch]

\* worktree.Pull(&git.PullOptions{RemoteName: "origin"}): the fetch brought f, then
\* the local branch is fast-forwarded to it.
WorktreePull(r, f) ==
    IF ~f.ok THEN [err |-> "failed", repo |-> r]
    ELSE IF r.local = f.sha THEN [err |-> "already_up_to_date", repo |-> r]
    ELSE IF f.diverged THEN [err |-> "failed", repo |-> r]
    ELSE [err |-> "none", repo |-> [r EXCEPT !.local = f.sha]]

\* git.PlainClone(path, false, opts): fails when path holds a repository already
\* or the fetch fails; otherwise path holds a clone with a worktree, HEAD at the
\* commit fetched.
PlainClone(r, f) ==
    IF r.openOk THEN [err |-> "failed", repo |-> r]
    ELSE IF ~f.ok THEN [err |-> "failed", repo |-> r]
    ELSE [err |-> "none",
          repo |-> [r EXCEPT !.openOk = TRUE, !.worktreeOk = TRUE, !.headOk = TRUE,
                             !.local = f.sha,
                             !.diverged = IF r.remote = f.sha THEN FALSE ELSE @]]

\* gitops.Clone: an error or nil.
Clone(r, f) ==
    LET c == PlainClone(r, f) IN
    IF c.err # "none" THEN GitResult("failed to clone", NoVer, c.repo, FALSE)
    ELSE GitResult("", NoVer, c.repo, FALSE)

\* cmd.cloneRepo: the same steps.
cloneRepo(r, f) ==
    LET c == PlainClone(r, f) IN
    IF c.err # "none" THEN GitResult("failed to clone", NoVer, c.repo, FALSE)
    ELSE GitResult("", NoVer, c.repo, FALSE)

\* A short hash of eight characters, as `git rev-parse --short=8` prints (a mutant).
GitShortHashEight(hash) ==
    IF Len(hash) > ShortLen + 1 THEN SubSeq(hash, 1, ShortLen + 1) ELSE hash

\* hash := head.Hash().String(); if len(hash) > 7 { hash = hash[:7] }
GitShortHash(hash) == IF Len(hash) > ShortLen THEN SubSeq(hash, 1, ShortLen) ELSE hash

GetCommitHash(r) ==
    IF ~r.openOk THEN GitResult("failed to open repo", NoVer, r, FALSE)
    ELSE IF ~r.headOk THEN GitResult("failed to get HEAD", NoVer, r, FALSE)
    ELSE GitResult("", GitShortHash(r.local), r, FALSE)

\* Pull that takes "already up to date" for a failure like any other (a mutant).
PullStrict(r, f) ==
    IF ~r.openOk THEN GitResult("failed to open repo", NoVer, r, FALSE)
    ELSE IF ~r.worktreeOk THEN GitResult("failed to get worktree", NoVer, r, FALSE)
    ELSE LET p == WorktreePull(r, f) IN
         IF p.err # "none" THEN GitResult("failed to pull", NoVer, p.repo, FALSE)
         ELSE LET g == GetCommitHash(p.repo) IN
              GitResult(g.err, g.hash, p.repo, p.err = "already_up_to_date")

\* gitops.Pull, f being what its fetch brings.
Pull(r, f) ==
    IF ~r.openOk THEN GitResult("failed to open repo", NoVer, r, FALSE)
    ELSE IF ~r.worktreeOk THEN GitResult("failed to get worktree", NoVer, r, FALSE)
    ELSE LET p == WorktreePull(r, f) IN
         IF p.err \notin {"none", "already_up_to_date"}
         THEN GitResult("failed to pull", NoVer, p.repo, FALSE)
         ELSE LET g == GetCommitHash(p.repo) IN
              GitResult(g.err, g.hash, p.repo, p.err = "already_up_to_date")

\* cmd.pullRepo: the same steps, HEAD read from the repository already open.
pullRepo(r, f) ==
    IF ~r.openOk THEN GitResult("failed to open repo", NoVer, r, FALSE)
    ELSE IF ~r.worktreeOk THEN GitResult("failed to get worktree", NoVer, r, FALSE)
    ELSE LET p == WorktreePull(r, f) IN
         IF p.err \notin {"none", "already_up_to_date"}
         THEN GitResult("failed to pull", NoVer, p.repo, FALSE)
         ELSE IF ~p.repo.headOk
         THEN GitResult("failed to get HEAD", NoVer, p.repo, p.err = "already_up_to_date")
         ELSE GitResult("", IF Len(p.repo.local) > ShortLen
                            THEN SubSeq(p.repo.local, 1, ShortLen)
                            ELSE p.repo.local,
                        p.repo, p.err = "already_up_to_date")

---------------------------------------------------------------------------
(* The calls in progress *)

\* No checkRepo call in progress. A call in progress is at "lookup" (the tag is
\* read, the GitHub call is under way) or at "marker" (latestHash is known).
NoCheck ==
    [pc |-> "none", repo |-> "",
     config |-> [Subsystem |-> "", UseTag |-> FALSE, Branch |-> ""],
     tag |-> NoVer, latestHash |-> NoVer]

\* No read of the Taskfile poller in progress. Start's loop or checkSubsystem is
\* at "read" when its child has printed the version.
NoRead == [pc |-> "none", version |-> NoVer]

---------------------------------------------------------------------------
EngineInit ==
    /\ head = [s \in Subsystems |-> ShaAbc]
    /\ desired = [s \in TaskfileSubs |-> TagV24]
    /\ marker = [s \in Subsystems |-> Recorded(ShortHash(ShaAbc))]
    /\ pollPc = "new"
    /\ pollTodo = {}
    /\ pollCur = NoCheck
    /\ tfPc = "new"
    /\ tfSubs = <<>>
    /\ tfIdx = 0
    /\ tfCur = NoRead
    /\ versions = [s \in TaskfileSubs |-> NoVer]
    /\ whPc = "new"
    /\ whGo = EmptyBag
    /\ pending = EmptyBag
    /\ gitCur = NoGitCall
    /\ running = EmptyBag
    /\ events = 0
    /\ limited = {}
    /\ restarted = [o \in {"poll", "taskfile"} |-> FALSE]
    /\ cycleFailed = [o \in {"poll", "taskfile"} |-> FALSE]
    /\ lastKnown = [s \in Subsystems |-> ShortHash(ShaAbc)]
    /\ sinceChange = [s \in Subsystems |-> 0]
    /\ last = Step("init", "", "", "", "", NoVer, "", 0)

Init ==
    /\ EngineInit
    /\ gitRepo = CleanRepo
    /\ gitOut = NoResult
    /\ verFile = BuiltMarker
    /\ verOut = NoCall
    /\ svc = NewProgram

---------------------------------------------------------------------------
(* The environment *)

\* Upstream pushes a commit to the tracked branch of s.
UpstreamPush(s, sha) ==
    /\ events < MaxEvents
    /\ sha # head[s]
    /\ head' = [head EXCEPT ![s] = sha]
    /\ sinceChange' = [sinceChange EXCEPT ![s] = 0]
    /\ events' = events + 1
    /\ last' = Step("push", "", "", s, "", ShortHash(sha), "", 0)
    /\ UNCHANGED <<verFile, verOut, svc, gitRepo, gitOut, limited, restarted, whPc,
                   cycleFailed, desired, marker, pollPc, pollTodo, tfPc, tfSubs, tfIdx,
                   versions, whGo, running, lastKnown, pollCur, tfCur, pending, gitCur>>

\* A developer edits the version pinned in the Taskfile of s.
TaskfileEdit(s, tag) ==
    /\ events < MaxEvents
    /\ tag # desired[s]
    /\ desired' = [desired EXCEPT ![s] = tag]
    /\ sinceChange' = IF s = "nats" THEN [sinceChange EXCEPT ![s] = 0] ELSE sinceChange
    /\ events' = events + 1
    /\ last' = Step("edit", "", "", s, "", tag, "", 0)
    /\ UNCHANGED <<verFile, verOut, svc, gitRepo, gitOut, limited, restarted, whPc,
                   cycleFailed, head, marker, pollPc, pollTodo, tfPc, tfSubs, tfIdx,
                   versions, whGo, running, lastKnown, pollCur, tfCur, pending, gitCur>>

\* The marker of s is removed (a clean), so that readVersion fails.
MarkerRemoved(s) ==
    /\ events < MaxEvents
    /\ marker[s].ok
    /\ marker' = [marker EXCEPT ![s] = Unreadable]
    /\ events' = events + 1
    /\ last' = Step("clean", "", "", s, "", NoVer, "", 0)
    /\ UNCHANGED <<verFile, verOut, svc, gitRepo, gitOut, limited, restarted, whPc,
                   cycleFailed, head, desired, pollPc, pollTodo, tfPc, tfSubs, tfIdx,
                   versions, whGo, running, lastKnown, sinceChange, pollCur, tfCur, pending,
                   gitCur>>

\* triggerUpdate ending its process on a failed command, as log.Fatalf would (a mutant).
triggerUpdateDoneFatal(pc, ok) == IF ok THEN pc ELSE "exited"

\* The tail of triggerUpdate: the outcome of the command is logged and the
\* goroutine returns; the process that launched it goes on as it was.
triggerUpdateDone(pc, ok) == pc

\* `task sync:update` with SUBSYSTEM=s exits; a successful run has fetched the
\* current upstream version and recorded its short hash in the marker, which it
\* cannot do for a pin that names no tag. The triggerUpdate that launched it then
\* logs the outcome.
PipelineExit(s, origin, v, ok) ==
    /\ BagIn(<<s, origin, v>>, running)
    /\ (ok /\ s = "nats") => desired["nats"] # NoVer
    /\ running' = running (-) SetToBag({<<s, origin, v>>})
    /\ marker' = IF ok THEN [marker EXCEPT ![s] = Recorded(ShortHash(Resolved(s)))]
                 ELSE marker
    /\ pollPc' = IF origin = "poll" THEN triggerUpdateDone(pollPc, ok) ELSE pollPc
    /\ tfPc' = IF origin = "taskfile" THEN triggerUpdateDone(tfPc, ok) ELSE tfPc
    /\ whPc' = IF origin = "webhook" THEN triggerUpdateDone(whPc, ok) ELSE whPc
    /\ last' = Step("exit", origin, "", s, IF ok THEN "completed" ELSE "failed", v, "", 0)
    /\ UNCHANGED <<verFile, verOut, svc, gitRepo, gitOut, limited, restarted, cycleFailed,
                   head, desired, pollTodo, tfSubs, tfIdx, versions, whGo, events,
                   lastKnown, sinceChange, pollCur, tfCur, pending, gitCur>>

\* A process of the engine ("poll" or "taskfile") is stopped and started again:
\* what it held in memory and its goroutines are gone, the commands it launched
\* run on.
Restart(proc) ==
    /\ events < MaxEvents
    /\ events' = events + 1
    /\ IF proc = "poll"
       THEN /\ pollPc # "new"
            /\ pollPc' = "new" /\ pollTodo' = {} /\ pollCur' = NoCheck
            /\ UNCHANGED <<tfPc, tfSubs, tfIdx, tfCur, versions>>
       ELSE /\ tfPc # "new"
            /\ tfPc' = "new" /\ tfSubs' = <<>> /\ tfIdx' = 0 /\ tfCur' = NoRead
            /\ versions' = [s \in TaskfileSubs |-> NoVer]
            /\ UNCHANGED <<pollPc, pollTodo, pollCur>>
    /\ pending' = pending (-) [k \in {x \in DOMAIN pending : x[2] = proc} |-> pending[k]]
    /\ cycleFailed' = [cycleFailed EXCEPT ![proc] = FALSE]
    /\ restarted' = [restarted EXCEPT ![proc] = TRUE]
    /\ last' = Step("restart", proc, "", "", "", NoVer, "", 0)
    /\ UNCHANGED <<verFile, verOut, svc, gitRepo, gitCur, gitOut, limited, head, desired,
                   marker, whPc, whGo, running, lastKnown, sinceChange>>

\* The goroutine of a poller's triggerUpdate(subsystem) runs up to the start of
\* its command.
GoroutineExec(s, origin, v) ==
    /\ BagIn(<<s, origin, v>>, pending)
    /\ pending' = pending (-) SetToBag({<<s, origin, v>>})
    /\ Launch(s, origin, v)
    /\ last' = Step("triggerUpdate", origin, "", s, "exec", v, "", 0)
    /\ UNCHANGED <<head, desired, marker, pollPc, pollTodo, pollCur, tfPc, tfSubs, tfIdx,
                   tfCur, versions, whPc, whGo, events, gitRepo, gitCur, gitOut, verFile,
                   verOut, svc, limited, restarted, cycleFailed, lastKnown, sinceChange>>

---------------------------------------------------------------------------
(* The upstream poller: sync poll *)

\* Poller.Start: the initial checkAll, before the first tick.
PollerStart ==
    /\ pollPc = "new"
    /\ pollPc' = "checking"
    /\ pollTodo' = PollerRepos
    /\ cycleFailed' = [cycleFailed EXCEPT !["poll"] = FALSE]
    /\ last' = Step("Start", "poll", "", "", "", NoVer, "", 0)
    /\ UNCHANGED <<verFile, verOut, svc, gitRepo, gitCur, gitOut, limited, restarted, whPc,
                   head, desired, marker, pollCur, tfPc, tfSubs, tfIdx, tfCur, versions,
                   whGo, pending, running, events, lastKnown, sinceChange>>

\* The ticker fires: the next checkAll. A counted tick is one of the bounded
\* events of the environment; the loop of Start itself never stops ticking.
Ticker(counted) ==
    /\ pollPc = "idle"
    /\ IF counted THEN events < MaxEvents /\ events' = events + 1 ELSE UNCHANGED events
    /\ pollPc' = "checking"
    /\ pollTodo' = PollerRepos
    /\ cycleFailed' = [cycleFailed EXCEPT !["poll"] = FALSE]
    /\ last' = Step("tick", "poll", "", "", "", NoVer, "", 0)
    /\ UNCHANGED <<verFile, verOut, svc, gitRepo, gitCur, gitOut, limited, restarted, whPc,
                   head, desired, marker, pollCur, tfPc, tfSubs, tfIdx, tfCur, versions,
                   whGo, pending, running, lastKnown, sinceChange>>

PollTick == Ticker(TRUE)

\* The outcomes with which checkRepo returns an error.
CheckErrors == {"invalid_repo", "desired_failed", "lookup_failed"}

\* checkRepo's first test: owner == "" || repoName == "".
InvalidRepo(repo) ==
    LET parts == parseRepo(RepoChars(repo))
    IN  parts[1] = NoVer \/ parts[2] = NoVer

\* getDesiredVersion: the trimmed output of `task <subsystem>:config:version`, an
\* error when the child fails (fault = "task") or prints nothing.
getDesiredVersion(subsystem, fault) ==
    LET version == TrimSpace(desired[subsystem] \o <<"\n">>)
    IN  IF fault = "task" \/ version = NoVer
        THEN [ok |-> FALSE, version |-> NoVer]
        ELSE [ok |-> TRUE, version |-> version]

\* getTagCommit: the short hash of the commit the ref tags/<tag> of the
\* repository owner/repo points at; an error when the call fails ("github"), is
\* rate-limited ("rate_limit"), or the repository has no such ref: the release
\* tags are those of nats-io/nats-server.
getTagCommit(owner, repo, tag, fault) ==
    IF \/ fault \in {"github", "rate_limit"}
       \/ owner \o <<"/">> \o repo # RepoChars("nats-io/nats-server")
       \/ tag \notin Tags
    THEN [ok |-> FALSE, hash |-> NoVer]
    ELSE [ok |-> TRUE, hash |-> ShortHash(TagTarget(tag))]

\* getLatestCommit: the short hash of the first commit GitHub lists for the
\* branch of the repository owner/repo, whatever component the caller tracks
\* with it; an error when the call fails or is rate-limited, or GitHub has no
\* such repository or branch. The repositories are those of the poller's table,
\* each with the branch master, the default one.
getLatestCommit(owner, repo, branch, fault) ==
    LET found == {r \in PollerRepos : RepoChars(r) = owner \o <<"/">> \o repo}
    IN  IF \/ fault \in {"github", "rate_limit"}
           \/ found = {}
           \/ branch \notin {"master", ""}
        THEN [ok |-> FALSE, hash |-> NoVer]
        ELSE [ok |-> TRUE,
              hash |-> ShortHash(head[repos[CHOOSE r \in found : TRUE].Subsystem])]

\* The end of checkRepo in a poller that remembers the version it last triggered
\* for and does not trigger for it again (a mutant).
checkRepoCompareRemembers(config, latestHash, current) ==
    IF ~current.ok
    THEN [res |-> "marker_unreadable", ver |-> latestHash, trigger |-> FALSE]
    ELSE IF latestHash # current.commit /\ latestHash # lastKnown[config.Subsystem]
    THEN [res |-> "update", ver |-> latestHash, trigger |-> TRUE]
    ELSE [res |-> "up_to_date", ver |-> latestHash, trigger |-> FALSE]

\* The end of checkRepo: current is what GetCurrentVersion returned; an unreadable
\* marker is logged and nil returned, a differing commit triggers.
checkRepoCompare(config, latestHash, current) ==
    IF ~current.ok
    THEN [res |-> "marker_unreadable", ver |-> latestHash, trigger |-> FALSE]
    ELSE IF latestHash # current.commit
    THEN [res |-> "update", ver |-> latestHash, trigger |-> TRUE]
    ELSE [res |-> "up_to_date", ver |-> latestHash, trigger |-> FALSE]

\* What checkRepo returns with when one of its calls fails.
CheckFailed(res) == [res |-> res, ver |-> NoVer, trigger |-> FALSE]

\* checkAll returning at the first error of checkRepo (a mutant).
checkAllRestAbort(todo, repo, res) ==
    IF res \in CheckErrors THEN {} ELSE todo \ {repo}

\* checkAll's loop: an error of checkRepo is logged and the loop goes on.
checkAllRest(todo, repo, res) == todo \ {repo}

\* What no step of checkRepo changes.
PollFrame ==
    UNCHANGED <<head, desired, marker, tfPc, tfSubs, tfIdx, tfCur, versions, whPc, whGo,
                running, events, gitRepo, gitCur, gitOut, verFile, verOut, svc, restarted>>

\* checkRepo(repo, config) is entered: by checkAll's loop with an entry of the
\* table (Go visits the map in any order), or called on its own (direct).
Enters(repo, config, direct) ==
    /\ pollCur.pc = "none"
    /\ IF direct
       THEN pollPc = "new"
       ELSE pollPc = "checking" /\ repo \in pollTodo /\ config = repos[repo]

\* checkRepo returns with outcome r; checkAll logs an error and goes on with the
\* next repository.
CheckRepoReturn(repo, config, r) ==
    /\ pollCur' = NoCheck
    /\ IF r.trigger
       THEN Spawn(config.Subsystem, "poll", r.ver) /\ NoteTrigger(config.Subsystem, r.ver)
       ELSE UNCHANGED <<pending, lastKnown, sinceChange>>
    /\ pollTodo' = checkAllRest(pollTodo, repo, r.res)
    /\ pollPc' = IF pollPc # "checking" THEN pollPc
                 ELSE IF pollTodo' = {} THEN "idle" ELSE "checking"
    /\ cycleFailed' = IF r.res \in CheckErrors
                      THEN [cycleFailed EXCEPT !["poll"] = TRUE]
                      ELSE cycleFailed
    /\ last' = Step("checkRepo", "poll", repo, config.Subsystem, r.res, r.ver, "", 0)

\* checkRepo waits for its next call to return.
CheckRepoWaits(cur, op, ver) ==
    /\ pollCur' = cur
    /\ last' = Step(op, "poll", cur.repo, cur.config.Subsystem, "", ver, "", 0)
    /\ UNCHANGED <<pollPc, pollTodo, pending, cycleFailed, lastKnown, sinceChange>>

\* checkRepo given an identity without owner or name: the error, at once.
CheckRepoInvalid(repo, config, direct) ==
    /\ Enters(repo, config, direct)
    /\ InvalidRepo(repo)
    /\ CheckRepoReturn(repo, config, CheckFailed("invalid_repo"))
    /\ UNCHANGED limited
    /\ PollFrame

\* checkRepo of a repository with a pinned tag, up to the return of
\* getDesiredVersion: the child reads the Taskfile.
CheckRepoDesired(repo, config, fault, direct) ==
    /\ Enters(repo, config, direct)
    /\ ~InvalidRepo(repo)
    /\ config.UseTag
    /\ fault \in {"none", "task"}
    /\ LET d == getDesiredVersion(config.Subsystem, fault)
       IN  IF ~d.ok
           THEN CheckRepoReturn(repo, config, CheckFailed("desired_failed"))
           ELSE CheckRepoWaits([pc |-> "lookup", repo |-> repo, config |-> config,
                                tag |-> d.version, latestHash |-> NoVer],
                               "getDesiredVersion", d.version)
    /\ UNCHANGED limited
    /\ PollFrame

\* checkRepo up to the return of the GitHub call, which is made of the
\* repository repo names: getTagCommit of the tag read before, or
\* getLatestCommit of config.Branch.
CheckRepoLookup(repo, config, fault, direct) ==
    /\ fault \in {"none", "github", "rate_limit"}
    /\ \/ Enters(repo, config, direct) /\ ~InvalidRepo(repo) /\ ~config.UseTag
       \/ pollCur.pc = "lookup" /\ pollCur.repo = repo /\ pollCur.config = config
    /\ LET parts == parseRepo(RepoChars(repo))
           l == IF config.UseTag
                THEN getTagCommit(parts[1], parts[2], pollCur.tag, fault)
                ELSE getLatestCommit(parts[1], parts[2], config.Branch, fault)
       IN  IF ~l.ok
           THEN CheckRepoReturn(repo, config, CheckFailed("lookup_failed"))
           ELSE CheckRepoWaits([pc |-> "marker", repo |-> repo, config |-> config,
                                tag |-> pollCur.tag, latestHash |-> l.hash],
                               IF config.UseTag THEN "getTagCommit" ELSE "getLatestCommit",
                               l.hash)
    /\ limited' = IF fault = "rate_limit" THEN limited \cup {repo} ELSE limited \ {repo}
    /\ PollFrame

\* The end of checkRepo: the marker is read and compared with latestHash, and
\* `go triggerUpdate(config.Subsystem)` is started when they differ.
CheckRepoMarker(repo) ==
    /\ pollCur.pc = "marker"
    /\ pollCur.repo = repo
    /\ CheckRepoReturn(repo, pollCur.config,
                       checkRepoCompare(pollCur.config, pollCur.latestHash,
                                        marker[pollCur.config.Subsystem]))
    /\ UNCHANGED limited
    /\ PollFrame

\* One iteration of checkAll's loop, step by step.
CheckRepo(repo, fault) ==
    \/ CheckRepoDesired(repo, repos[repo], fault, FALSE)
    \/ CheckRepoLookup(repo, repos[repo], fault, FALSE)
    \/ CheckRepoMarker(repo)

\* Repository identities checkRepo can be given: those of the table, and some
\* that are not of the form owner/name.
RepoIds == PollerRepos \cup {"nats-server", "/telegraf", "arcopen/", "golang/go/src"}

\* p.checkRepo(repo, config) called with any identity and a configuration of the
\* table, step by step; fault is the call that fails, when it is reached.
CheckRepoCall(repo, config, fault) ==
    \/ CheckRepoInvalid(repo, config, TRUE)
    \/ CheckRepoDesired(repo, config, fault, TRUE)
    \/ CheckRepoLookup(repo, config, fault, TRUE)
    \/ CheckRepoMarker(repo)

\* The goroutine of poller.triggerUpdate(subsystem) starts `task sync:update`.
PollerTriggerUpdate(s, v) == GoroutineExec(s, "poll", v)

---------------------------------------------------------------------------
(* The Taskfile poller: sync poll-taskfiles *)

\* What no step of the Taskfile poller changes.
TfFrame ==
    UNCHANGED <<head, desired, marker, pollPc, pollTodo, pollCur, whPc, whGo, running,
                events, gitRepo, gitCur, gitOut, verFile, verOut, svc, limited, restarted,
                lastKnown, sinceChange>>

\* getTaskfileVersion: the trimmed output of `task <subsystem>:config:version`;
\* readOk is whether the child succeeds.
getTaskfileVersion(subsystem, readOk) ==
    IF readOk
    THEN [ok |-> TRUE, version |-> TrimSpace(desired[subsystem] \o <<"\n">>)]
    ELSE [ok |-> FALSE, version |-> NoVer]

\* TaskfilePoller.Start, up to the loop over the subsystems discovered.
TfStart ==
    /\ tfPc = "new"
    /\ tfSubs' = DiscoveredSubsystems
    /\ tfPc' = IF Len(DiscoveredSubsystems) = 0 THEN "idle" ELSE "starting"
    /\ tfIdx' = IF Len(DiscoveredSubsystems) = 0 THEN 0 ELSE 1
    /\ last' = Step("Start", "taskfile", "", "", "discovered", NoVer, "", 0)
    /\ UNCHANGED <<versions, tfCur, pending, cycleFailed>>
    /\ TfFrame

\* discoverSubsystems fails: Start returns the error and PollTaskfiles exits.
TfStartFails ==
    /\ tfPc = "new"
    /\ tfPc' = "exited"
    /\ last' = Step("Start", "taskfile", "", "", "discover_failed", NoVer, "", 0)
    /\ UNCHANGED <<tfSubs, tfIdx, versions, tfCur, pending, cycleFailed>>
    /\ TfFrame

\* One iteration of Start's loop up to the return of getTaskfileVersion: the
\* child reads the Taskfile while Start waits for it; a failed read is logged and
\* the loop goes on, leaving no baseline.
TfStartRead(readOk) ==
    /\ tfPc = "starting"
    /\ tfIdx \in 1..Len(tfSubs)
    /\ tfCur.pc = "none"
    /\ LET s == tfSubs[tfIdx]
           read == getTaskfileVersion(s, readOk)
       IN  IF ~read.ok
           THEN /\ last' = Step("Start", "taskfile", "", s, "read_failed", NoVer, "", 0)
                /\ tfIdx' = IF tfIdx = Len(tfSubs) THEN 0 ELSE tfIdx + 1
                /\ tfPc' = IF tfIdx = Len(tfSubs) THEN "idle" ELSE "starting"
                /\ UNCHANGED tfCur
           ELSE /\ tfCur' = [pc |-> "read", version |-> read.version]
                /\ last' = Step("getTaskfileVersion", "taskfile", "", s, "", read.version,
                                "", 0)
                /\ UNCHANGED <<tfIdx, tfPc>>
    /\ UNCHANGED <<tfSubs, versions, pending, cycleFailed>>
    /\ TfFrame

\* The end of an iteration of Start's loop: the version the child printed becomes
\* the baseline of the subsystem and is logged.
TfStartStore ==
    /\ tfPc = "starting"
    /\ tfIdx \in 1..Len(tfSubs)
    /\ tfCur.pc = "read"
    /\ LET s == tfSubs[tfIdx]
       IN  /\ versions' = [versions EXCEPT ![s] = tfCur.version]
           /\ last' = Step("Start", "taskfile", "", s, "baseline", tfCur.version, "", 0)
    /\ tfCur' = NoRead
    /\ tfIdx' = IF tfIdx = Len(tfSubs) THEN 0 ELSE tfIdx + 1
    /\ tfPc' = IF tfIdx = Len(tfSubs) THEN "idle" ELSE "starting"
    /\ UNCHANGED <<tfSubs, pending, cycleFailed>>
    /\ TfFrame

\* The ticker fires: checkAll starts at the first subsystem.
TfTick ==
    /\ tfPc = "idle"
    /\ events < MaxEvents
    /\ events' = events + 1
    /\ tfPc' = "checking"
    /\ tfIdx' = 1
    /\ cycleFailed' = [cycleFailed EXCEPT !["taskfile"] = FALSE]
    /\ last' = Step("tick", "taskfile", "", "", "", NoVer, "", 0)
    /\ UNCHANGED <<verFile, verOut, svc, gitRepo, gitCur, gitOut, limited, restarted, whPc,
                   head, desired, marker, pollPc, pollTodo, pollCur, tfSubs, tfCur,
                   versions, whGo, pending, running, lastKnown, sinceChange>>

\* checkSubsystem going on with the empty output of a failed read (a mutant).
checkSubsystemIgnoresError(subsystem, read) ==
    IF read.version # versions[subsystem]
    THEN [res |-> IF read.ok THEN "changed" ELSE "read_failed",
          version |-> read.version, trigger |-> TRUE]
    ELSE [res |-> IF read.ok THEN "same" ELSE "read_failed",
          version |-> versions[subsystem], trigger |-> FALSE]

\* checkSubsystem launching the trigger without `p.versions[subsystem] =
\* currentVersion` (a mutant).
checkSubsystemForgets(subsystem, read) ==
    IF ~read.ok
    THEN [res |-> "read_failed", version |-> versions[subsystem], trigger |-> FALSE]
    ELSE IF read.version # versions[subsystem]
    THEN [res |-> "changed", version |-> versions[subsystem], trigger |-> TRUE]
    ELSE [res |-> "same", version |-> versions[subsystem], trigger |-> FALSE]

\* checkSubsystem taking the first version it reads for a subsystem without an
\* entry as the baseline, as Start does, without a trigger (a mutant).
checkSubsystemAdopts(subsystem, read) ==
    IF ~read.ok
    THEN [res |-> "read_failed", version |-> versions[subsystem], trigger |-> FALSE]
    ELSE IF read.version # versions[subsystem]
    THEN [res |-> "changed", version |-> read.version,
          trigger |-> versions[subsystem] # NoVer]
    ELSE [res |-> "same", version |-> versions[subsystem], trigger |-> FALSE]

\* What checkSubsystem decides; read is what getTaskfileVersion returned.
checkSubsystem(subsystem, read) ==
    IF ~read.ok
    THEN [res |-> "read_failed", version |-> versions[subsystem], trigger |-> FALSE]
    ELSE IF read.version # versions[subsystem]
    THEN [res |-> "changed", version |-> read.version, trigger |-> TRUE]
    ELSE [res |-> "same", version |-> versions[subsystem], trigger |-> FALSE]

\* TaskfilePoller.checkAll's loop: an error of checkSubsystem is logged and the
\* loop goes on with the next subsystem.
tfCheckAllNext(idx, res) == idx + 1

\* checkSubsystem returns with decision r, having read ver: the version is
\* stored, `go p.triggerUpdate(subsystem)` started, and checkAll goes on.
TfReturn(s, r, ver) ==
    LET next == tfCheckAllNext(tfIdx, r.res)
    IN  /\ versions' = [versions EXCEPT ![s] = r.version]
        /\ IF r.trigger THEN Spawn(s, "taskfile", r.version) ELSE UNCHANGED pending
        /\ tfIdx' = IF next > Len(tfSubs) THEN 0 ELSE next
        /\ tfPc' = IF next > Len(tfSubs) THEN "idle" ELSE "checking"
        /\ tfCur' = NoRead
        /\ cycleFailed' = IF r.res = "read_failed"
                          THEN [cycleFailed EXCEPT !["taskfile"] = TRUE]
                          ELSE cycleFailed
        /\ last' = Step("checkSubsystem", "taskfile", "", s, r.res, ver, "", 0)

\* checkSubsystem up to the return of getTaskfileVersion: the child reads the
\* Taskfile; a failed read is returned as the error of checkSubsystem.
TfCheckRead(readOk) ==
    /\ tfPc = "checking"
    /\ tfIdx \in 1..Len(tfSubs)
    /\ tfCur.pc = "none"
    /\ LET s == tfSubs[tfIdx]
           read == getTaskfileVersion(s, readOk)
       IN  IF ~read.ok
           THEN TfReturn(s, checkSubsystem(s, read), NoVer)
           ELSE /\ tfCur' = [pc |-> "read", version |-> read.version]
                /\ last' = Step("getTaskfileVersion", "taskfile", "", s, "", read.version,
                                "", 0)
                /\ UNCHANGED <<versions, pending, tfIdx, tfPc, cycleFailed>>
    /\ UNCHANGED tfSubs
    /\ TfFrame

\* The end of checkSubsystem: currentVersion is compared with the stored one.
TfCheckCompare ==
    /\ tfPc = "checking"
    /\ tfIdx \in 1..Len(tfSubs)
    /\ tfCur.pc = "read"
    /\ TfReturn(tfSubs[tfIdx],
                checkSubsystem(tfSubs[tfIdx], [ok |-> TRUE, version |-> tfCur.version]),
                tfCur.version)
    /\ UNCHANGED tfSubs
    /\ TfFrame

\* One iteration of TaskfilePoller.checkAll's loop, step by step.
TfCheckSubsystem(readOk) ==
    \/ TfCheckRead(readOk)
    \/ TfCheckCompare

\* The goroutine of TaskfilePoller.triggerUpdate(subsystem) starts `task sync:update`.
TfTriggerUpdate(s, v) == GoroutineExec(s, "taskfile", v)

---------------------------------------------------------------------------
(* The webhook server: sync watch *)

HandledKinds == {"release_published", "push"}
Kinds == HandledKinds \cup {"malformed"}
Signatures == {"valid", "invalid", "missing"}

\* What the payload of an event names and its handler logs: the tag of a release,
\* the ref of a push.
EventVersions(kind) ==
    CASE kind = "release_published" -> Tags
      [] kind = "push" -> Refs
      [] OTHER -> {NoVer}

\* cmd.Watch: the handlers are registered and http.ListenAndServe has bound its
\* port.
Watch ==
    /\ whPc = "new"
    /\ whPc' = "serving"
    /\ last' = Step("Watch", "webhook", "", "", "listening", NoVer, "", 0)
    /\ UNCHANGED <<head, desired, marker, pollPc, pollTodo, pollCur, tfPc, tfSubs, tfIdx,
                   tfCur, versions, whGo, pending, running, events, gitRepo, gitCur,
                   gitOut, verFile, verOut, svc, limited, restarted, cycleFailed,
                   lastKnown, sinceChange>>

\* http.ListenAndServe returns an error (the port is in use, the listener
\* fails): log.Fatal ends the process and its goroutines with it; the commands
\* already started run on.
ListenAndServeFails ==
    /\ whPc \in {"new", "serving"}
    /\ whPc' = "exited"
    /\ whGo' = EmptyBag
    /\ last' = Step("Watch", "webhook", "", "", "fatal", NoVer, "", 0)
    /\ UNCHANGED <<head, desired, marker, pollPc, pollTodo, pollCur, tfPc, tfSubs, tfIdx,
                   tfCur, versions, pending, running, events, gitRepo, gitCur, gitOut,
                   verFile, verOut, svc, limited, restarted, cycleFailed, lastKnown,
                   sinceChange>>

\* HandleWebhook: HandleEventRequest validates and decodes the request and runs the
\* registered handler, which starts `go triggerUpdate(repo)` and returns; then the
\* status is written. ver is the tag or the ref the event names.
HandleWebhook(kind, repo, sig, ver) ==
    /\ whPc = "serving"
    /\ events < MaxEvents
    /\ events' = events + 1
    /\ LET status == HandleStatus(kind, sig)
       IN  /\ whGo' = IF status = StatusOK /\ kind \in HandledKinds
                      THEN Go(whGo, <<repo, ver>>)
                      ELSE whGo
           /\ last' = Step("HandleWebhook", "webhook", repo, "", kind, ver, sig, status)
    /\ UNCHANGED <<verFile, verOut, svc, gitRepo, gitOut, limited, restarted, whPc,
                   cycleFailed, head, desired, marker, pollPc, pollTodo, tfPc, tfSubs,
                   tfIdx, versions, running, lastKnown, sinceChange, pollCur, tfCur,
                   pending, gitCur>>

\* triggerUpdate without its `if subsystem == ""` return (a mutant).
WebhookTriggerUpdateNoGuard(repo, ver) ==
    /\ whPc = "serving"
    /\ BagIn(<<repo, ver>>, whGo)
    /\ whGo' = whGo (-) SetToBag({<<repo, ver>>})
    /\ Launch(mapRepoToSubsystem(repo), "webhook", ver)
    /\ last' = Step("triggerUpdate", "webhook", repo, mapRepoToSubsystem(repo), "exec",
                    ver, "", 0)
    /\ UNCHANGED <<verFile, verOut, svc, gitRepo, gitOut, limited, restarted, whPc,
                   cycleFailed, head, desired, marker, pollPc, pollTodo, tfPc, tfSubs,
                   tfIdx, versions, events, lastKnown, sinceChange, pollCur, tfCur, pending,
                   gitCur>>

\* triggerUpdate that first compares the version of the event with the marker and
\* leaves a component alone whose marker already records it (a mutant).
WebhookTriggerUpdateIfNew(repo, ver) ==
    /\ whPc = "serving"
    /\ BagIn(<<repo, ver>>, whGo)
    /\ whGo' = whGo (-) SetToBag({<<repo, ver>>})
    /\ LET subsystem == mapRepoToSubsystem(repo)
       IN  IF subsystem = ""
           THEN /\ UNCHANGED <<running, lastKnown, sinceChange>>
                /\ last' = Step("triggerUpdate", "webhook", repo, "", "unknown_repo",
                                ver, "", 0)
           ELSE IF marker[subsystem] = Recorded(Commit(ver))
           THEN /\ UNCHANGED <<running, lastKnown, sinceChange>>
                /\ last' = Step("triggerUpdate", "webhook", repo, subsystem, "up_to_date",
                                ver, "", 0)
           ELSE /\ Launch(subsystem, "webhook", ver)
                /\ NoteTrigger(subsystem, ver)
                /\ last' = Step("triggerUpdate", "webhook", repo, subsystem, "exec",
                                ver, "", 0)
    /\ UNCHANGED <<verFile, verOut, svc, gitRepo, gitOut, limited, restarted, whPc,
                   cycleFailed, head, desired, marker, pollPc, pollTodo, tfPc, tfSubs,
                   tfIdx, versions, events, pollCur, tfCur, pending, gitCur>>

\* The goroutine of webhook.triggerUpdate(repo) runs up to its exec.
WebhookTriggerUpdate(repo, ver) ==
    /\ whPc = "serving"
    /\ BagIn(<<repo, ver>>, whGo)
    /\ whGo' = whGo (-) SetToBag({<<repo, ver>>})
    /\ LET subsystem == mapRepoToSubsystem(repo)
       IN  IF subsystem = ""
           THEN /\ UNCHANGED <<running, lastKnown, sinceChange>>
                /\ last' = Step("triggerUpdate", "webhook", repo, "", "unknown_repo",
                                ver, "", 0)
           ELSE /\ Launch(subsystem, "webhook", ver)
                /\ NoteTrigger(subsystem, ver)
                /\ last' = Step("triggerUpdate", "webhook", repo, subsystem, "exec",
                                ver, "", 0)
    /\ UNCHANGED <<verFile, verOut, svc, gitRepo, gitOut, limited, restarted, whPc,
                   cycleFailed, head, desired, marker, pollPc, pollTodo, tfPc, tfSubs,
                   tfIdx, versions, events, pollCur, tfCur, pending, gitCur>>

---------------------------------------------------------------------------
Pipeline ==
    \E s \in Subsystems, o \in Origins, v \in Versions, ok \in BOOLEAN :
        PipelineExit(s, o, v, ok)

PollerGoroutines == \E s \in Subsystems, v \in Versions : PollerTriggerUpdate(s, v)

UpstreamPoller ==
    \/ PollerStart
    \/ PollTick
    \/ \E repo \in PollerRepos, fault \in {"none", "task", "github"} : CheckRepo(repo, fault)
    \/ PollerGoroutines

TaskfilePoller ==
    \/ TfStart
    \/ TfStartFails
    \/ \E readOk \in BOOLEAN : TfStartRead(readOk)
    \/ TfStartStore
    \/ TfTick
    \/ \E readOk \in BOOLEAN : TfCheckSubsystem(readOk)
    \/ \E s \in TaskfileSubs, v \in Versions : TfTriggerUpdate(s, v)

WebhookServer ==
    \/ Watch
    \/ ListenAndServeFails

WebhookGoroutines ==
    \E repo \in WebhookRepos, ver \in Versions : WebhookTriggerUpdate(repo, ver)

\* The engine: the upstream poller and the webhook server side by side, every
\* lookup succeeding; releases of nats and pushes to liftbridge's master are
\* notified by signed events; liftbridge's branch and the nats pin move.
Next ==
    \/ \E sha \in Shas : UpstreamPush("liftbridge", sha)
    \/ \E tag \in Tags : TaskfileEdit("nats", tag)
    \/ Pipeline
    \/ PollerStart
    \/ PollTick
    \/ \E repo \in PollerRepos : CheckRepo(repo, "none")
    \/ PollerGoroutines
    \/ WebhookServer
    \/ \E tag \in Tags :
           HandleWebhook("release_published", "nats-io/nats-server", "valid", tag)
    \/ HandleWebhook("push", "liftbridge-io/liftbridge", "valid", RefMaster)
    \/ WebhookGoroutines

Spec == Init /\ [][Next]_vars

\* The webhook server alone, with every kind of request.
NextWebhook ==
    \/ WebhookServer
    \/ \E kind \in Kinds, repo \in WebhookRepos, sig \in Signatures :
           \E ver \in EventVersions(kind) : HandleWebhook(kind, repo, sig, ver)
    \/ WebhookGoroutines
    \/ Pipeline

SpecWebhook == Init /\ [][NextWebhook]_vars

\* The Taskfile poller alone; the pins of the discovered subsystems move, also
\* to a Taskfile whose config:version prints nothing.
NextTaskfile ==
    \/ \E s \in TaskfileSubs, tag \in Tags \cup {NoVer} : TaskfileEdit(s, tag)
    \/ Pipeline
    \/ TaskfilePoller

SpecTaskfile == Init /\ [][NextTaskfile]_vars

\* The two pollers side by side, with every fault of their reads; the nats pin
\* (which the upstream poller resolves and the Taskfile poller reads) moves to
\* the next release.
NextPollers ==
    \/ TaskfileEdit("nats", TagV25)
    \/ Pipeline
    \/ UpstreamPoller
    \/ TaskfilePoller

SpecPollers == Init /\ [][NextPollers]_vars

\* The two pollers, every read succeeding, with what happens around them: the
\* nats pin moves to the next release, the nats marker is removed, a poller is
\* restarted.
NextRecovery ==
    \/ TaskfileEdit("nats", TagV25)
    \/ MarkerRemoved("nats")
    \/ \E proc \in {"poll", "taskfile"} : Restart(proc)
    \/ Pipeline
    \/ PollerStart
    \/ PollTick
    \/ \E repo \in PollerRepos : CheckRepo(repo, "none")
    \/ PollerGoroutines
    \/ TfStart
    \/ \E readOk \in BOOLEAN : TfStartRead(readOk)
    \/ TfStartStore
    \/ TfTick
    \/ TfCheckSubsystem(TRUE)
    \/ \E s \in TaskfileSubs, v \in Versions : TfTriggerUpdate(s, v)

SpecRecovery == Init /\ [][NextRecovery]_vars

\* The three processes side by side: the two pollers, whose lookups succeed and
\* whose initial reads may fail, and the webhook server, which is sent signed
\* releases of nats; the nats pin moves to the next release.
NextEngine ==
    \/ TaskfileEdit("nats", TagV25)
    \/ Pipeline
    \/ PollerStart
    \/ PollTick
    \/ \E repo \in PollerRepos : CheckRepo(repo, "none")
    \/ PollerGoroutines
    \/ TfStart
    \/ \E readOk \in BOOLEAN : TfStartRead(readOk)
    \/ TfStartStore
    \/ TfTick
    \/ TfCheckSubsystem(TRUE)
    \/ \E s \in TaskfileSubs, v \in Versions : TfTriggerUpdate(s, v)
    \/ Watch
    \/ HandleWebhook("release_published", "nats-io/nats-server", "valid", TagV25)
    \/ WebhookGoroutines

SpecEngine == Init /\ [][NextEngine]_vars

\* The upstream poller alone, whose lookups GitHub may also answer with a
\* rate-limit error; the nats pin moves.
NextRateLimit ==
    \/ \E tag \in Tags : TaskfileEdit("nats", tag)
    \/ Pipeline
    \/ PollerStart
    \/ PollTick
    \/ \E repo \in PollerRepos, fault \in {"none", "task", "github", "rate_limit"} :
           CheckRepo(repo, fault)
    \/ PollerGoroutines

SpecRateLimit == Init /\ [][NextRateLimit]_vars

---------------------------------------------------------------------------
(* gitops calls *)

GitFrame ==
    UNCHANGED <<head, desired, marker, pollPc, pollTodo, pollCur, tfPc, tfSubs, tfIdx,
                tfCur, versions, whPc, whGo, pending, running, events, limited, restarted,
                cycleFailed, lastKnown, sinceChange, last, verFile, verOut, svc>>

\* A call returns res; fetched is the commit its fetch brought, if it fetched.
GitReturn(op, res, fetched) ==
    /\ gitRepo' = res.repo
    /\ gitOut' = [op |-> op, prev |-> gitOut.op, err |-> res.err, hash |-> res.hash,
                  upToDate |-> res.upToDate, fetched |-> fetched]
    /\ gitCur' = NoGitCall
    /\ GitFrame

\* A call goes to origin: its fetch reads the remote branch now, and the call
\* goes on when the answer is in.
GitWaits(op, f) ==
    /\ gitCur' = [pc |-> "fetched", op |-> op, fetch |-> f]
    /\ UNCHANGED <<gitRepo, gitOut>>
    /\ GitFrame

\* The library's Pull is called on the clone: up to the answer of origin, or to
\* the error of PlainOpen or of Worktree.
GitPull ==
    /\ gitCur.pc = "none"
    /\ IF ~gitRepo.openOk \/ ~gitRepo.worktreeOk
       THEN GitReturn("Pull", Pull(gitRepo, NoFetch), NoVer)
       ELSE GitWaits("Pull", Fetch(gitRepo, TRUE))

\* `sync pull <path>`: the CLI's pullRepo is called on the clone, likewise.
GitPullRepo ==
    /\ gitCur.pc = "none"
    /\ IF ~gitRepo.openOk \/ ~gitRepo.worktreeOk
       THEN GitReturn("pullRepo", pullRepo(gitRepo, NoFetch), NoVer)
       ELSE GitWaits("pullRepo", Fetch(gitRepo, TRUE))

\* The library's Clone is called for the path of the clone: up to the answer of
\* origin, or to the error of a path that holds a repository already. refOk is
\* whether origin has the version asked for.
GitClone(refOk) ==
    /\ gitCur.pc = "none"
    /\ IF gitRepo.openOk
       THEN GitReturn("Clone", Clone(gitRepo, NoFetch), NoVer)
       ELSE GitWaits("Clone", Fetch(gitRepo, refOk))

\* `sync clone <url> <path> [version]`: the CLI's cloneRepo, likewise.
GitCloneRepo(refOk) ==
    /\ gitCur.pc = "none"
    /\ IF gitRepo.openOk
       THEN GitReturn("cloneRepo", cloneRepo(gitRepo, NoFetch), NoVer)
       ELSE GitWaits("cloneRepo", Fetch(gitRepo, refOk))

\* The answer of origin is in: the call goes to its end with what was fetched.
GitFetched ==
    /\ gitCur.pc = "fetched"
    /\ LET f == gitCur.fetch
           res == CASE gitCur.op = "Pull" -> Pull(gitRepo, f)
                    [] gitCur.op = "pullRepo" -> pullRepo(gitRepo, f)
                    [] gitCur.op = "Clone" -> Clone(gitRepo, f)
                    [] OTHER -> cloneRepo(gitRepo, f)
       IN  GitReturn(gitCur.op, res, IF f.ok THEN f.sha ELSE NoVer)

\* GetCommitHash is called on the clone.
GitGetCommitHash ==
    /\ gitCur.pc = "none"
    /\ GitReturn("GetCommitHash", GetCommitHash(gitRepo), NoVer)

\* The surroundings of the clone change: a push to origin (fast-forward or not),
\* the network going or coming back.
GitEnv(remote, diverged, fetchOk) ==
    /\ <<remote, diverged, fetchOk>> # <<gitRepo.remote, gitRepo.diverged, gitRepo.fetchOk>>
    /\ gitRepo' = [gitRepo EXCEPT !.remote = remote, !.diverged = diverged,
                                  !.fetchOk = fetchOk]
    /\ gitOut' = [NoResult EXCEPT !.op = "env", !.prev = gitOut.op]
    /\ UNCHANGED gitCur
    /\ GitFrame

InitGitops ==
    /\ EngineInit
    /\ gitRepo \in GitRepos
    /\ gitOut = NoResult
    /\ verFile = BuiltMarker
    /\ verOut = NoCall
    /\ svc = NewProgram

NextGitops ==
    \/ GitPull
    \/ GitPullRepo
    \/ \E refOk \in BOOLEAN : GitClone(refOk)
    \/ \E refOk \in BOOLEAN : GitCloneRepo(refOk)
    \/ GitFetched
    \/ GitGetCommitHash
    \/ \E remote \in GitShas, diverged \in BOOLEAN, fetchOk \in BOOLEAN :
           GitEnv(remote, diverged, fetchOk)

SpecGitops == InitGitops /\ [][NextGitops]_vars

\* The upstream poller over time: upstream pushes to liftbridge a bounded number
\* of times, the ticker goes on for ever, every lookup succeeds.
NextConverge ==
    \/ \E sha \in Shas : UpstreamPush("liftbridge", sha)
    \/ Pipeline
    \/ PollerStart
    \/ Ticker(FALSE)
    \/ \E repo \in PollerRepos : CheckRepo(repo, "none")
    \/ PollerGoroutines

\* The ticker keeps firing, checkAll visits every repository of its cycle and
\* every call of checkRepo returns, every goroutine gets to run, and every
\* pipeline run terminates (with either outcome).
FairConverge ==
    /\ WF_vars(PollerStart)
    /\ WF_vars(Ticker(FALSE))
    /\ WF_vars(\E repo \in PollerRepos : CheckRepo(repo, "none"))
    /\ WF_vars(PollerGoroutines)
    /\ WF_vars(Pipeline)

SpecConverge == Init /\ [][NextConverge]_vars /\ FairConverge

---------------------------------------------------------------------------
(* checker calls *)

CheckerFrame ==
    UNCHANGED <<head, desired, marker, pollPc, pollTodo, tfPc, tfSubs, tfIdx, versions,
                whPc, whGo, running, events, limited, restarted, cycleFailed, lastKnown,
                sinceChange, last, gitRepo, gitOut, svc, pollCur, tfCur, pending, gitCur>>

\* readVersion is called on the marker file.
ReadVersionCall ==
    /\ verOut' = [op |-> "readVersion", res |-> readVersion(verFile)]
    /\ verFile' = verFile
    /\ CheckerFrame

\* GetCurrentVersion is called for the subsystem of the marker file.
GetCurrentVersionCall ==
    /\ verOut' = [op |-> "GetCurrentVersion", res |-> GetCurrentVersion(verFile)]
    /\ verFile' = verFile
    /\ CheckerFrame

\* The marker file is rewritten, or removed.
MarkerFileWritten(file) ==
    /\ file # verFile
    /\ verFile' = file
    /\ verOut' = NoCall
    /\ CheckerFrame

NextChecker ==
    \/ ReadVersionCall
    \/ GetCurrentVersionCall
    \/ \E file \in MarkerFiles : MarkerFileWritten(file)

SpecChecker == Init /\ [][NextChecker]_vars

\* CheckVersion once its TODO is done: latest is the short hash of the remote (a mutant).
CheckVersionRemote(subsystem) ==
    IF ~marker[subsystem].ok
    THEN [current |-> NoVer, latest |-> NoVer, err |-> TRUE]
    ELSE [current |-> marker[subsystem].commit,
          latest |-> ShortHash(Resolved(subsystem)), err |-> FALSE]

\* checker.CheckVersion: (current, latest, error), with `latest := current`.
CheckVersion(subsystem) ==
    IF ~marker[subsystem].ok
    THEN [current |-> NoVer, latest |-> NoVer, err |-> TRUE]
    ELSE [current |-> marker[subsystem].commit,
          latest |-> marker[subsystem].commit, err |-> FALSE]

\* The line cmd.Check prints for a subsystem.
CheckLine(subsystem) ==
    LET r == CheckVersion(subsystem)
    IN  IF r.err THEN "error"
        ELSE IF r.current = r.latest THEN "up_to_date"
        ELSE "update_available"

\* `sync check`: cmd.Check reports every subsystem.
Check ==
    /\ verOut' = [op |-> "Check", res |-> [s \in Subsystems |-> CheckLine(s)]]
    /\ verFile' = verFile
    /\ CheckerFrame

\* `sync check` beside the upstream poller, while liftbridge's branch and the nats
\* pin move and the nats marker may be removed.
NextCheck ==
    \/ \E sha \in Shas : UpstreamPush("liftbridge", sha)
    \/ \E tag \in Tags : TaskfileEdit("nats", tag)
    \/ MarkerRemoved("nats")
    \/ Pipeline
    \/ PollerStart
    \/ \E repo \in PollerRepos : CheckRepo(repo, "none")
    \/ PollerGoroutines
    \/ Check

SpecCheck == Init /\ [][NextCheck]_vars

---------------------------------------------------------------------------
(* service: Start, the run goroutine and Stop *)

SvcFrame ==
    UNCHANGED <<head, desired, marker, pollPc, pollTodo, tfPc, tfSubs, tfIdx, versions,
                whPc, whGo, running, events, limited, restarted, cycleFailed, lastKnown,
                sinceChange, last, gitRepo, gitOut, verFile, verOut, pollCur, tfCur,
                pending, gitCur>>

\* program.Start: `go p.run()` and return.
SvcStart ==
    /\ ~svc.started
    /\ svc' = [svc EXCEPT !.started = TRUE, !.runPc = "spawned"]
    /\ SvcFrame

\* run, up to cmd.Run: p.cmd = exec.Command(taskPath, "start:fg") and its fields.
SvcRunCommand ==
    /\ svc.runPc = "spawned"
    /\ svc' = [svc EXCEPT !.cmd = TRUE, !.runPc = "built"]
    /\ SvcFrame

\* run, p.cmd.Run() starting the child: on success p.cmd.Process is set and Run
\* waits for the child; otherwise Run returns the error and run logs it.
SvcRunStart(ok) ==
    /\ svc.runPc = "built"
    /\ svc' = IF ok
              THEN [svc EXCEPT !.process = TRUE, !.child = "running", !.runPc = "waiting"]
              ELSE [svc EXCEPT !.runPc = "returned"]
    /\ SvcFrame

\* The child exits, of itself or on the interrupt; Run returns and run ends.
SvcChildExit ==
    /\ svc.runPc = "waiting"
    /\ svc.child \in {"running", "interrupted"}
    /\ svc' = [svc EXCEPT !.child = "exited", !.runPc = "returned"]
    /\ SvcFrame

\* program.Stop, called after Start. It reads p.cmd and p.cmd.Process with no
\* synchronisation with run, which writes them: seesCmd and seesProcess are what
\* the reads return, nil being possible also after the write.
SvcStop(seesCmd, seesProcess) ==
    /\ svc.started
    /\ svc.stop = "none"
    /\ seesCmd => svc.cmd
    /\ seesProcess => (seesCmd /\ svc.process)
    /\ svc' = IF seesCmd /\ seesProcess
              THEN [svc EXCEPT !.stop = "returned", !.signalled = TRUE,
                               !.child = IF @ = "running" THEN "interrupted" ELSE @]
              ELSE [svc EXCEPT !.stop = "returned"]
    /\ SvcFrame

Service ==
    \/ SvcStart
    \/ SvcRunCommand
    \/ \E ok \in BOOLEAN : SvcRunStart(ok)
    \/ SvcChildExit
    \/ \E seesCmd \in BOOLEAN, seesProcess \in BOOLEAN : SvcStop(seesCmd, seesProcess)

\* The service wrapper beside the upstream poller of the engine its child runs.
NextService ==
    \/ Service
    \/ \E sha \in Shas : UpstreamPush("liftbridge", sha)
    \/ Pipeline
    \/ PollerStart
    \/ \E repo \in PollerRepos : CheckRepo(repo, "none")
    \/ PollerGoroutines

SpecService == Init /\ [][NextService]_vars

\* checkRepo given any identity with any configuration of the table, while
\* liftbridge's branch moves ahead of the others, the nats marker may be removed
\* and the pipelines it launches run. The child may fail; a lookup fails when
\* GitHub does not hold what is asked for.
NextCheckRepo ==
    \/ UpstreamPush("liftbridge", ShaDef)
    \/ MarkerRemoved("nats")
    \/ Pipeline
    \/ \E repo \in RepoIds, r \in PollerRepos, fault \in {"none", "task"} :
           CheckRepoCall(repo, repos[r], fault)
    \/ PollerGoroutines

SpecCheckRepo == Init /\ [][NextCheckRepo]_vars

---------------------------------------------------------------------------
(* Claims *)

\* C1: for every component, in every reachable state, the number of pipeline
\* invocations in flight is 0 or 1, whatever the origins of the triggers.
C1_AtMostOneInFlight == \A s \in Subsystems : InFlight(s) \in {0, 1}

\* A step in which checkRepo returns.
CheckRepoReturns == last'.op = "checkRepo" /\ last' # last

\* A step in which the goroutine of a webhook's triggerUpdate runs.
WebhookGoroutineRuns ==
    /\ last'.op = "triggerUpdate" /\ last'.origin = "webhook"
    /\ BagCardinality(whGo') = BagCardinality(whGo) - 1

\* C2: a notification (a poll observation, or a webhook delivery reaching
\* triggerUpdate) that carries the commit of the component's last-known remote
\* version starts no new trigger for that component.
C2_KnownVersionNoTrigger ==
    [][\A s \in Subsystems :
          (/\ CheckRepoReturns \/ WebhookGoroutineRuns
           /\ last'.sub = s
           /\ Commit(last'.ver) = Commit(lastKnown[s]))
          => Triggered(s)' <= Triggered(s)]_vars

\* C3: a poll-origin and a webhook-origin notification for the same component that
\* carry the same commit never both launch the pipeline: no state has an
\* invocation of each origin in flight for the same component and commit.
C3_PollAndWebhookOnce ==
    \A s \in Subsystems, v \in Versions, w \in Versions :
        Commit(v) = Commit(w)
        => ~(BagIn(<<s, "poll", v>>, running) /\ BagIn(<<s, "webhook", w>>, running))

\* C4: for one upstream change of a component, its remote version having moved
\* from the commit first applied, at most one trigger is started by the poll
\* ticks and webhook deliveries that observe the new version.
C4_OneTriggerPerChange ==
    \A s \in Subsystems : Resolved(s) # ShaAbc => sinceChange[s] <= 1

\* C5: while the trigger for V1 is in flight, no trigger is launched for a later
\* version V2 of the same component (V2 is superseded or kept as the one pending
\* follow-up): all invocations in flight for one component and launched by one
\* origin carry the same version.
C5_SupersededNotLaunched ==
    \A k1 \in DOMAIN running, k2 \in DOMAIN running :
        (k1[1] = k2[1] /\ k1[2] = k2[2]) => k1[3] = k2[3]

NatsRepo == "nats-io/nats-server"

\* A step in which checkRepo, having looked up the remote commit of repo, reads
\* the marker, compares and returns.
PollCompares(repo) ==
    /\ CheckRepoReturns
    /\ last'.repo = repo
    /\ pollCur.pc = "marker" /\ pollCur.repo = repo

\* A step in which the goroutine k of a poller starts its command.
PollerGoroutineRuns(k) ==
    /\ last'.op = "triggerUpdate" /\ last'.origin = k[2]
    /\ BagIn(k, pending)
    /\ pending' = pending (-) SetToBag({k})

\* A step that launched an invocation for nats.
NatsLaunched == InFlight("nats")' = InFlight("nats") + 1 /\ last'.sub = "nats"

\* C6: the scenario of the pinned nats tag. A poll check of nats starts no trigger
\* while the commit its tag resolves to is the one the marker records, and
\* exactly one trigger once it is another; and the invocation launched for nats
\* for a version whose commit the marker does not record, by the goroutine of
\* that check or by the one of a release webhook for nats-io/nats-server, carries
\* the VersionPointer: its command or its environment names something besides
\* the subsystem.
C6_TriggerCarriesVersion ==
    [][/\ PollCompares(NatsRepo)
          => /\ running' = running
             /\ IF pollCur.latestHash = marker["nats"].commit
                THEN pending' = pending
                ELSE pending' =
                        pending (+) SetToBag({<<"nats", "poll", pollCur.latestHash>>})
       /\ (NatsLaunched /\ Commit(last'.ver) # marker["nats"].commit)
          => \/ Len(last'.inv.cmd) > 2
             \/ \E e \in last'.inv.env : e[1] # "SUBSYSTEM"]_vars

\* C7: a webhook request whose signature is missing or invalid is answered with a
\* 4xx status (and so starts no goroutine).
C7_UnsignedRejected ==
    (last.op = "HandleWebhook" /\ last.sig \in {"missing", "invalid"})
    => last.status \in 400..499

\* A repository absent from the registry, or mapped to no component.
Unregistered(repo) == repo \notin DOMAIN repoMap \/ repoMap[repo] = ""

\* C8: a structurally valid, signed event for an unregistered repository is
\* answered with 200, and neither the request nor the goroutine it starts launches
\* a pipeline invocation.
C8_UnregisteredAcknowledged ==
    [][/\ (/\ last'.op = "HandleWebhook" /\ events' = events + 1
           /\ Unregistered(last'.repo)
           /\ last'.res \in HandledKinds /\ last'.sig = "valid")
          => (last'.status = StatusOK /\ running' = running)
       /\ \A k \in DOMAIN whGo :
             (/\ WebhookGoroutineRuns
              /\ Unregistered(k[1])
              /\ whGo' = whGo (-) SetToBag({k}))
             => running' = running]_vars

\* C8 witness: the goroutine of an event for an unknown repository has run.
C8_Witness ==
    /\ last.op = "triggerUpdate" /\ last.repo = UnknownRepo
    /\ last.res = "unknown_repo"

\* C9: the request handler launches no pipeline invocation itself, and its status
\* is 200 for a well-formed, signed event and 400 for anything else, whatever the
\* pipelines do.
C9_AsyncResponse ==
    [][(last'.op = "HandleWebhook" /\ events' = events + 1)
       => /\ running' = running
          /\ last'.status = IF last'.res \in HandledKinds /\ last'.sig = "valid"
                            THEN StatusOK ELSE StatusBadRequest]_vars

\* An iteration of the upstream poller's checkAll ends: checkRepo of a returns.
PollVisits(a) == CheckRepoReturns /\ a \in pollTodo /\ a \notin pollTodo'

\* An iteration of the Taskfile poller's checkAll ends: checkSubsystem returns.
TfVisits == last'.op = "checkSubsystem" /\ tfPc = "checking" /\ tfIdx' # tfIdx

\* C10: in a cycle of either poller, a check that fails removes only its own
\* component from the cycle: every other component is still visited before the
\* cycle ends, and a component visited after a failure whose version differs
\* still starts its trigger.
C10_FailureIsolated ==
    [][/\ \A a \in PollerRepos :
             PollVisits(a)
             => /\ pollTodo' = pollTodo \ {a}
                /\ pollPc' = IF pollTodo' = {} THEN "idle" ELSE "checking"
                /\ LET s == repos[a].Subsystem
                   IN  (/\ cycleFailed["poll"]
                        /\ last'.res \notin CheckErrors
                        /\ marker[s].ok
                        /\ pollCur.latestHash # marker[s].commit)
                       => Pending(s)' = Pending(s) + 1
       /\ TfVisits
          => /\ tfIdx' = IF tfIdx = Len(tfSubs) THEN 0 ELSE tfIdx + 1
             /\ tfPc' = IF tfIdx = Len(tfSubs) THEN "idle" ELSE "checking"
             /\ \A s \in Subsystems :
                   (/\ s = tfSubs[tfIdx]
                    /\ cycleFailed["taskfile"]
                    /\ last'.res # "read_failed"
                    /\ tfCur.version # versions[s])
                   => Pending(s)' = Pending(s) + 1]_vars

\* C10 witness: in one cycle of the upstream poller a check has failed and a later
\* check of another repository has started its trigger.
C10_Witness ==
    /\ cycleFailed["poll"]
    /\ last.op = "checkRepo" /\ last.res = "update"
    /\ pending = SetToBag({<<last.sub, "poll", last.ver>>})

\* The outcomes of a check whose version observation failed.
ObservationFailures == {"desired_failed", "lookup_failed", "read_failed"}

\* C11: a check whose version observation fails (the lookups of checkRepo, the
\* read of checkSubsystem or of Start) is recorded as a failure of its cycle,
\* starts and launches nothing and leaves the marker and the versions map as they
\* were; the next tick visits every component again, the failed one included.
C11_FailedObservationInert ==
    [][/\ (/\ last'.op \in {"checkRepo", "checkSubsystem"}
           /\ last'.res \in ObservationFailures
           /\ <<pollTodo, tfIdx>> # <<pollTodo', tfIdx'>>)
          => /\ pending' = pending
             /\ running' = running
             /\ versions' = versions
             /\ marker' = marker
             /\ cycleFailed'[last'.origin]
       /\ (/\ last'.op = "Start" /\ last'.res = "read_failed"
           /\ tfPc = "starting" /\ tfIdx' # tfIdx)
          => /\ pending' = pending
             /\ running' = running
             /\ versions' = versions
       /\ (pollPc = "idle" /\ pollPc' = "checking") => pollTodo' = PollerRepos
       /\ (tfPc = "idle" /\ tfPc' = "checking")
          => (tfIdx' = 1 /\ tfSubs' = DiscoveredSubsystems)]_vars

\* C11 witness: the read of a subsystem whose Taskfile version has changed failed,
\* and the change is still to be seen: the versions map holds the old version.
C11_Witness ==
    /\ last.op = "checkSubsystem" /\ last.res = "read_failed"
    /\ last.sub = "nats"
    /\ versions["nats"] = TagV24 /\ desired["nats"] = TagV25
    /\ Triggered("nats") = 0

\* C12: a check of a component whose remote lookups succeed while its marker
\* cannot be read treats the applied version as unknown and starts exactly one
\* trigger for the component.
C12_UnreadableMarkerTriggers ==
    [][\A a \in PollerRepos :
          (PollCompares(a) /\ ~marker[repos[a].Subsystem].ok)
          => pending' = pending (+)
                 SetToBag({<<repos[a].Subsystem, "poll", pollCur.latestHash>>})]_vars

\* C13: once the invocation launched for version V of a component has ended, a
\* poll check that observes the same V again, V still being the last-known
\* version, starts nothing, whether that invocation succeeded or failed.
C13_NoBusyRetry ==
    [][\A a \in PollerRepos :
          (/\ PollCompares(a)
           /\ sinceChange[repos[a].Subsystem] >= 1
           /\ Triggered(repos[a].Subsystem) = 0
           /\ pollCur.latestHash = Commit(lastKnown[repos[a].Subsystem]))
          => pending' = pending]_vars

\* A step in which an invocation ends with a non-zero outcome.
PipelineFailed ==
    /\ last'.op = "exit" /\ last'.res = "failed"
    /\ BagCardinality(running') = BagCardinality(running) - 1

\* C14: the failure of a pipeline invocation ends no process of the engine: the
\* pollers and the webhook server are where they were, nothing they remember,
\* no goroutine of theirs and no marker has changed, so the component is judged
\* at its next check as it was before the invocation.
C14_PipelineFailureNotFatal ==
    [][PipelineFailed
       => /\ <<pollPc, pollTodo, pollCur, tfPc, tfSubs, tfIdx, tfCur, whPc, whGo, pending>>' =
             <<pollPc, pollTodo, pollCur, tfPc, tfSubs, tfIdx, tfCur, whPc, whGo, pending>>
          /\ <<marker, versions>>' = <<marker, versions>>]_vars

\* C14 witness: an invocation launched by the poller has failed while the poller
\* and the webhook server are running, and the component still differs from its
\* marker.
C14_Witness ==
    /\ last.op = "exit" /\ last.res = "failed" /\ last.origin = "poll"
    /\ pollPc \in {"checking", "idle"} /\ whPc = "serving"
    /\ marker[last.sub].commit # last.ver

\* C15: no error ends a process of the engine: whatever has failed, the upstream
\* poller, the Taskfile poller and the webhook server are still running.
C15_NoErrorIsFatal ==
    /\ pollPc # "exited"
    /\ tfPc # "exited"
    /\ whPc # "exited"

\* The component a notifying step is about: the subsystem configured for the
\* polled repository, the registry entry of the webhook's repository, or the
\* subsystem whose Taskfile was read.
NotifiedComponent(step) ==
    CASE step.origin = "poll" -> repos[step.repo].Subsystem
      [] step.origin = "webhook" -> repoMap[step.repo]
      [] OTHER -> step.sub

\* C16: a check that starts a trigger starts one, for the component it checked;
\* a step that launches the pipeline launches one invocation, whose command is
\* task sync:update with SUBSYSTEM naming one component and nothing else: the
\* component of the goroutine a check started, or the registry entry of the
\* repository of the webhook.
C16_ExactlyOneComponent ==
    [][/\ \A k \in DOMAIN pending' :
             (k \notin DOMAIN pending \/ pending'[k] > pending[k])
             => /\ pending' = pending (+) SetToBag({k})
                /\ k[1] \in Subsystems
                /\ k[1] = NotifiedComponent(last')
       /\ \A k \in DOMAIN running' :
             (k \notin DOMAIN running \/ running'[k] > running[k])
             => /\ running' = running (+) SetToBag({k})
                /\ last'.inv.cmd = <<"task", "sync:update">>
                /\ last'.inv.env = {<<"SUBSYSTEM", k[1]>>}
                /\ k[1] \in Subsystems
                /\ IF k[2] = "webhook"
                   THEN k[1] = NotifiedComponent(last')
                   ELSE PollerGoroutineRuns(k)]_vars

\* C16 witness: a webhook for liftbridge-io/liftbridge has launched the pipeline
\* for liftbridge while an invocation the poller launched for nats is in flight.
C16_Witness ==
    /\ last.op = "triggerUpdate" /\ last.res = "exec"
    /\ last.repo = "liftbridge-io/liftbridge"
    /\ last.inv.env = {<<"SUBSYSTEM", "liftbridge">>}
    /\ InFlightOf("nats", "poll") = 1

\* A step that launches a pipeline invocation, and one that starts a trigger:
\* a goroutine of a poller, or the command of a webhook's goroutine.
Launches == BagCardinality(running') > BagCardinality(running)
Triggers == Launches \/ BagCardinality(pending') > BagCardinality(pending)

\* C17: a trigger is started only by a step of the per-component reconciler: a
\* check of a poller (checkRepo, checkSubsystem) and the triggerUpdate a webhook
\* handler starts only pass their observation on and never start the pipeline
\* themselves.
C17_LaunchOnlyByReconciler ==
    [][Triggers => last'.op \notin {"checkRepo", "checkSubsystem", "triggerUpdate"}]_vars

\* The version of component s the engine last acted on, as the origin knows it:
\* the Taskfile poller's versions map, or the version of the last trigger.
Known(s, origin) == IF origin = "taskfile" THEN versions[s] ELSE lastKnown[s]

\* C18: a trigger is started for a component only when the version observed
\* differs from the last-known one and no trigger is under way for the component;
\* the starting step sets the last-known version to the observed one, and the
\* trigger is the one for that version.
C18_LaunchOnlyWhenNewAndIdle ==
    [][\A k \in DOMAIN pending' :
          (k \notin DOMAIN pending \/ pending'[k] > pending[k])
          => /\ Triggered(k[1]) = 0
             /\ last'.ver # Known(k[1], k[2])
             /\ Known(k[1], k[2])' = last'.ver
             /\ k[3] = last'.ver]_vars

\* C19: a check that finds a new version starts its trigger as a goroutine and
\* moves on: the step adds the goroutine to those under way, whatever their number
\* and their components, launches nothing itself, and the pass goes to its next
\* component or ends, without any invocation having to end first; the goroutine
\* then launches its invocation beside those in flight. The webhook server, while
\* it serves, can take and answer a request whatever is running: the handler
\* writes its status in the step that starts its goroutine, launches nothing
\* itself and leaves the pollers' goroutines alone, and its goroutine launches
\* its invocation beside those in flight.
C19_DetachedTriggers ==
    [][/\ \A a \in PollerRepos :
             (PollVisits(a) /\ last'.res = "update")
             => /\ pending' =
                      pending (+) SetToBag({<<repos[a].Subsystem, "poll", last'.ver>>})
                /\ running' = running
                /\ pollPc' = IF pollTodo \ {a} = {} THEN "idle" ELSE "checking"
       /\ \A s \in TaskfileSubs :
             (TfVisits /\ last'.res = "changed" /\ s = tfSubs[tfIdx])
             => /\ pending' = pending (+) SetToBag({<<s, "taskfile", last'.ver>>})
                /\ running' = running
                /\ tfPc' = IF tfIdx = Len(tfSubs) THEN "idle" ELSE "checking"
       /\ \A k \in DOMAIN pending :
             PollerGoroutineRuns(k) => running' = running (+) SetToBag({k})
       /\ (whPc = "serving" /\ events < MaxEvents)
          => ENABLED HandleWebhook("release_published", NatsRepo, "valid", TagV25)
       /\ (last'.op = "HandleWebhook" /\ events' = events + 1)
          => /\ last'.status = HandleStatus(last'.res, last'.sig)
             /\ whGo' = IF last'.status = StatusOK /\ last'.res \in HandledKinds
                        THEN whGo (+) SetToBag({<<last'.repo, last'.ver>>})
                        ELSE whGo
             /\ running' = running
             /\ pending' = pending
             /\ whPc' = "serving"
       /\ \A k \in DOMAIN whGo :
             (/\ WebhookGoroutineRuns
              /\ whGo' = whGo (-) SetToBag({k})
              /\ mapRepoToSubsystem(k[1]) # "")
             => running' =
                   running (+) SetToBag({<<mapRepoToSubsystem(k[1]), "webhook", k[2]>>})]_vars

\* C19 witness: a webhook request has been answered with 200 after a pass of the
\* Taskfile poller has ended, while the invocation that pass launched for one
\* component is running and the trigger it started for another is under way.
C19_Witness ==
    /\ last.op = "HandleWebhook" /\ last.status = StatusOK
    /\ BagCardinality(whGo) = 1
    /\ tfPc = "idle"
    /\ InFlightOf("nats", "taskfile") = 1
    /\ Pending("liftbridge") = 1

\* C20: a poller that has been restarted remembers nothing and judges a
\* component by what it reads then: a successful check of nats by a restarted
\* poller, while the marker is readable and records another commit than the one
\* of the version the check observed and no trigger is under way for nats, starts
\* a trigger for nats.
C20_ChangeWhileDownNotLost ==
    [][(/\ \/ /\ restarted["poll"]
              /\ PollCompares(NatsRepo)
              /\ marker["nats"].commit # pollCur.latestHash
           \/ /\ restarted["taskfile"]
              /\ TfVisits /\ last'.sub = "nats" /\ last'.res # "read_failed"
              /\ marker["nats"].commit # Commit(tfCur.version)
        /\ marker["nats"].ok
        /\ Triggered("nats") = 0)
       => Triggered("nats")' = 1]_vars

OwnRepo == "joeblew999/plat-telemetry"

\* C21: the goroutine started for a release of the project's own repository
\* launches an update.
C21_OwnReleaseTriggersUpdate ==
    [][(WebhookGoroutineRuns /\ last'.repo = OwnRepo /\ last'.ver \in Tags)
       => Launches]_vars

\* C22: a lookup answered with a rate-limit error is reported with an outcome of
\* its own, distinct from the other lookup failures, and the next tick leaves out
\* the repositories that were rate-limited while it visits all the others.
C22_RateLimitBackoff ==
    [][/\ (CheckRepoReturns /\ last'.repo \in limited' /\ pollTodo' # pollTodo)
          => last'.res \notin {"lookup_failed", "desired_failed", "invalid_repo",
                               "update", "up_to_date", "marker_unreadable"}
       /\ (last'.op = "tick" /\ pollPc = "idle" /\ pollPc' = "checking")
          => pollTodo' = PollerRepos \ limited]_vars

Pulls == {"Pull", "pullRepo"}

\* What a pull of the clone would fetch now.
FetchNow == Fetch(gitRepo, TRUE)

PullFails(r, f) == ~r.openOk \/ ~r.worktreeOk \/ WorktreePull(r, f).err = "failed"

\* C23: Pull on a clone that is already up to date succeeds and returns the short
\* hash of HEAD; a Pull after a successful one, origin being reachable and its
\* branch where the first one fetched it, returns the same identifier and leaves
\* the clone as it is; when the repository cannot be opened, has no worktree or
\* the pull fails, the result is an error and no identifier; and pullRepo returns
\* what Pull returns, whatever is fetched.
C23_PullContract ==
    /\ \A f \in Fetches : Pull(gitRepo, f) = pullRepo(gitRepo, f)
    /\ (/\ gitRepo.openOk /\ gitRepo.worktreeOk /\ gitRepo.headOk
        /\ WorktreePull(gitRepo, FetchNow).err = "already_up_to_date")
       => /\ Pull(gitRepo, FetchNow).err = ""
          /\ Pull(gitRepo, FetchNow).hash = GitShortHash(gitRepo.local)
    /\ \A f \in Fetches :
          PullFails(gitRepo, f)
          => (Pull(gitRepo, f).err # "" /\ Pull(gitRepo, f).hash = NoVer)
    /\ (/\ gitOut.op \in Pulls /\ gitOut.err = "" /\ gitCur.pc = "none"
        /\ gitRepo.fetchOk /\ gitRepo.remote = gitOut.fetched)
       => /\ Pull(gitRepo, FetchNow).err = ""
          /\ Pull(gitRepo, FetchNow).hash = gitOut.hash
          /\ Pull(gitRepo, FetchNow).repo = gitRepo

\* C23 witness: a second Pull in a row has found the clone up to date and
\* returned the hash the first one returned.
C23_Witness ==
    /\ gitOut.op = "Pull" /\ gitOut.prev \in Pulls
    /\ gitOut.err = "" /\ gitOut.upToDate
    /\ gitOut.fetched = gitRepo.remote
    /\ gitOut.hash = GitShortHash(gitRepo.remote)

\* C24: once the remote version of a component has stopped changing, with every
\* pipeline run terminating and a successful run recording the remote version in
\* the marker, from some point on every check of the poller finds the component
\* up to date and starts no trigger.
C24_Convergence ==
    <>[][CheckRepoReturns => (last'.res = "up_to_date" /\ ~Triggers)]_vars

\* C25: every release-published and every push event that is accepted for a
\* repository mapped to a subsystem starts exactly one goroutine, and that
\* goroutine launches exactly one invocation, for that subsystem, whatever tag or
\* ref the event names and whatever the marker records.
C25_EveryEventLaunchesOnce ==
    [][/\ (/\ last'.op = "HandleWebhook" /\ events' = events + 1
           /\ last'.res \in HandledKinds /\ last'.status = StatusOK
           /\ mapRepoToSubsystem(last'.repo) # "")
          => /\ whGo' = whGo (+) SetToBag({<<last'.repo, last'.ver>>})
             /\ last'.ver \in EventVersions(last'.res)
             /\ running' = running
       /\ \A k \in DOMAIN whGo :
             (/\ WebhookGoroutineRuns
              /\ mapRepoToSubsystem(k[1]) # ""
              /\ whGo' = whGo (-) SetToBag({k}))
             => /\ running' = running (+)
                               SetToBag({<<mapRepoToSubsystem(k[1]), "webhook", k[2]>>})
                /\ last'.inv = Invocation("webhook", mapRepoToSubsystem(k[1]))]_vars

\* C25 witness: the goroutine of a release event has launched the pipeline for a
\* component whose marker already records the commit of the tag the event names.
C25_Witness ==
    /\ last.op = "triggerUpdate" /\ last.res = "exec"
    /\ last.ver \in Tags
    /\ marker[last.sub] = Recorded(Commit(last.ver))
    /\ InFlightOf(last.sub, "webhook") >= 1

\* The end of an iteration of the Taskfile poller's checkAll that checks
\* subsystem s.
TfChecks(s) == TfVisits /\ s = tfSubs[tfIdx]

\* What checkSubsystem has read when it returns: the output of its child, or
\* nothing when the child failed.
TfRead == IF last'.res = "read_failed" THEN NoVer ELSE tfCur.version

\* C26: the child of checkSubsystem prints the version the Taskfile pins when it
\* runs; checkSubsystem starts a trigger exactly when the version it read
\* successfully differs from versions[subsystem], and records the read version in
\* the step that starts it; after a successful check the recorded version is the
\* read one, so that an unchanged version starts nothing at the next tick; and
\* neither the start of the command nor its exit, with either outcome, changes
\* the versions.
C26_TriggerIffVersionDiffers ==
    [][/\ (last'.op = "getTaskfileVersion" /\ tfCur.pc = "none" /\ tfCur'.pc = "read")
          => tfCur'.version = desired[tfSubs[tfIdx]]
       /\ \A s \in TaskfileSubs :
             TfChecks(s)
             => /\ IF last'.res # "read_failed" /\ TfRead # versions[s]
                   THEN /\ pending' = pending (+) SetToBag({<<s, "taskfile", TfRead>>})
                        /\ versions' = [versions EXCEPT ![s] = TfRead]
                   ELSE /\ pending' = pending
                        /\ versions' = versions
                /\ last'.res # "read_failed" => versions'[s] = TfRead
                /\ running' = running
       /\ last'.op \in {"triggerUpdate", "exit"} => versions' = versions]_vars

\* C26 witness: a tick has read for nats the version recorded when the trigger
\* still in flight was started, and has started nothing.
C26_Witness ==
    /\ last.op = "checkSubsystem" /\ last.sub = "nats" /\ last.res = "same"
    /\ versions["nats"] = TagV25 /\ desired["nats"] = TagV25
    /\ running = SetToBag({<<"nats", "taskfile", TagV25>>})
    /\ pending = EmptyBag

\* A step that starts a trigger of the Taskfile poller.
TfTriggers ==
    \E k \in DOMAIN pending' :
        k[2] = "taskfile" /\ CopiesIn(k, pending') > CopiesIn(k, pending)

\* What C27 says of Start and of the origin of the triggers: Start starts no
\* trigger and leaves as the baseline of each subsystem the version its child
\* printed, which is the version the Taskfile pinned when the child ran, or
\* nothing when the read failed; the triggers are started by the checks of a tick
\* only.
TfStartKeepsBaseline ==
    /\ (tfPc = "starting" /\ last'.op = "getTaskfileVersion" /\ tfCur'.pc = "read")
       => /\ tfCur'.version = desired[tfSubs[tfIdx]]
          /\ <<pending, running, versions>>' = <<pending, running, versions>>
    /\ (last'.op = "Start" /\ last'.origin = "taskfile" /\ last' # last)
       => /\ pending' = pending
          /\ running' = running
          /\ versions' = IF last'.res = "baseline"
                         THEN [versions EXCEPT ![last'.sub] = tfCur.version]
                         ELSE versions
    /\ TfTriggers => (last'.op = "checkSubsystem" /\ tfPc = "checking")

\* C27 (as amended): Start records baselines without a trigger and triggers come
\* from ticks only; a check that successfully reads a non-empty version while the
\* baseline is absent starts exactly one trigger and records that version.
C27_BaselineWithoutTrigger ==
    [][/\ TfStartKeepsBaseline
       /\ \A s \in TaskfileSubs :
             (/\ TfChecks(s) /\ versions[s] = NoVer
              /\ last'.res # "read_failed" /\ TfRead # NoVer)
             => /\ pending' = pending (+) SetToBag({<<s, "taskfile", TfRead>>})
                /\ versions'[s] = TfRead]_vars

\* C27 (as claimed): Start records baselines without a trigger and triggers come
\* from ticks only; a check that reads a version successfully while the baseline
\* is absent starts exactly one trigger and records that version, whatever the
\* version read.
C27_AnySuccessfulReadTriggers ==
    [][/\ TfStartKeepsBaseline
       /\ \A s \in TaskfileSubs :
             (TfChecks(s) /\ versions[s] = NoVer /\ last'.res # "read_failed")
             => /\ pending' = pending (+) SetToBag({<<s, "taskfile", TfRead>>})
                /\ versions'[s] = TfRead]_vars

\* C27 witness: the pin of liftbridge has never moved, its initial read failed,
\* and the first tick has started a trigger for it and recorded the version.
C27_Witness ==
    /\ last.op = "checkSubsystem" /\ last.sub = "liftbridge" /\ last.res = "changed"
    /\ events = 1
    /\ versions["liftbridge"] = TagV24
    /\ Pending("liftbridge") = 1

\* The SHA a lookup of the check in progress resolves now: that of the tag, or
\* the head of the repository the check names.
LookedUp ==
    IF pollCur.config.UseTag
    THEN TagTarget(pollCur.tag)
    ELSE head[repos[pollCur'.repo].Subsystem]

\* A step in which the GitHub call of checkRepo returns a commit.
PollLooksUp ==
    /\ last'.op \in {"getTagCommit", "getLatestCommit"}
    /\ pollCur.pc # "marker" /\ pollCur'.pc = "marker"

\* C28: a check of the upstream poller holds the short hash its lookup resolved
\* in that check and, when it reads the marker, starts a trigger exactly when
\* that hash differs from the commit the marker records at that moment, whatever
\* the poller triggered before; the check changes nothing but the position of the
\* loop and the set of goroutines.
C28_PollerKeepsNoMemory ==
    [][/\ PollLooksUp => pollCur'.latestHash = ShortHash(LookedUp)
       /\ \A repo \in PollerRepos :
             PollCompares(repo)
             => /\ marker[repos[repo].Subsystem].ok
                   => IF pollCur.latestHash # marker[repos[repo].Subsystem].commit
                      THEN pending' = pending (+)
                               SetToBag({<<repos[repo].Subsystem, "poll",
                                           pollCur.latestHash>>})
                      ELSE pending' = pending
                /\ UNCHANGED <<head, desired, marker, versions, tfSubs, whGo, running>>]_vars

\* C28 witness: a check has started a trigger for a remote version for which a
\* trigger had been started before.
C28_Witness ==
    /\ last.op = "checkRepo" /\ last.res = "update"
    /\ sinceChange[last.sub] >= 2
    /\ lastKnown[last.sub] = last.ver
    /\ Pending(last.sub) = 1

\* C29: whichever origin launches it, the invocation for subsystem S is the
\* command task sync:update run with the environment of the engine process
\* extended by SUBSYSTEM=S.
C29_SameInvocation ==
    [][Launches
       => last'.inv = [cmd |-> <<"task", "sync:update">>,
                       env |-> {<<"SUBSYSTEM", last'.sub>>},
                       inheritsEnviron |-> TRUE]]_vars

\* The first seven characters of sha, or all of sha when it has no more.
IsPrefix7(id, sha) ==
    /\ Len(id) = IF Len(sha) <= 7 THEN Len(sha) ELSE 7
    /\ \A i \in 1..Len(id) : id[i] = sha[i]

\* A clone whose HEAD is at sha.
CloneAt(sha) == [CleanRepo EXCEPT !.local = sha, !.remote = sha]

\* C30: of one SHA the poller and the repository helpers (GetCommitHash, pullRepo)
\* derive the same identifier, its first 7 characters or the whole of it when it
\* has 7 or fewer; and a check whose lookup succeeds reports the component up to
\* date exactly when the commit of the marker equals that identifier.
C30_SameShortHash ==
    [][/\ \A sha \in GitShas :
             /\ IsPrefix7(ShortHash(sha), sha)
             /\ GetCommitHash(CloneAt(sha)).hash = ShortHash(sha)
             /\ pullRepo(CloneAt(sha), Fetch(CloneAt(sha), TRUE)).hash = ShortHash(sha)
       /\ PollLooksUp => pollCur'.latestHash = GetCommitHash(CloneAt(LookedUp)).hash
       /\ \A repo \in PollerRepos :
             PollCompares(repo)
             => /\ last'.ver = pollCur.latestHash
                /\ last'.res = "up_to_date"
                   <=> marker[repos[repo].Subsystem].commit = pollCur.latestHash]_vars

\* C30 witness: after an update to the commit def5678... the marker records
\* def5678 and a check of nats has found it up to date.
C30_Witness ==
    /\ last.op = "checkRepo" /\ last.sub = "nats" /\ last.res = "up_to_date"
    /\ Resolved("nats") = ShaDef
    /\ last.ver = SubSeq(ShaDef, 1, 7)
    /\ marker["nats"] = Recorded(SubSeq(ShaDef, 1, 7))

\* The lines of a file that begin with commit: and hold exactly one colon.
CommitLines(file) ==
    LET lines == Split(file.data, "\n")
    IN  {i \in 1..Len(lines) :
            /\ HasPrefix(lines[i], CommitPrefix)
            /\ Cardinality({k \in 1..Len(lines[i]) : lines[i][k] = ":"}) = 1}

\* The characters with Unicode's White_Space property.
UnicodeWhiteSpace ==
    {"\t", "\n", "U+000B", "\f", "\r", " ", "U+0085", "U+00A0", "U+1680"}
    \cup {"U+2000", "U+2001", "U+2002", "U+2003", "U+2004", "U+2005", "U+2006",
          "U+2007", "U+2008", "U+2009", "U+200A"}
    \cup {"U+2028", "U+2029", "U+202F", "U+205F", "U+3000"}

\* str is of without the white space at either end.
Trimmed(str, of) ==
    /\ \E a, b \in 0..Len(of) :
          /\ a + b <= Len(of)
          /\ str = SubSeq(of, a + 1, Len(of) - b)
          /\ \A k \in (1..a) \cup ((Len(of) - b + 1)..Len(of)) :
                of[k] \in UnicodeWhiteSpace
    /\ str # <<>> => (str[1] \notin UnicodeWhiteSpace /\ str[Len(str)] \notin UnicodeWhiteSpace)

\* C31: readVersion returns the trimmed value of the first line that begins with
\* commit: and holds exactly one colon; it returns an error and no version when
\* the file cannot be read or holds no such line; GetCurrentVersion returns what
\* readVersion returns.
C31_ReadVersion ==
    /\ GetCurrentVersion(verFile) = readVersion(verFile)
    /\ verOut.op \in {"readVersion", "GetCurrentVersion"}
       => IF verFile.ok /\ CommitLines(verFile) # {}
          THEN LET lines == Split(verFile.data, "\n")
                   i == CHOOSE k \in CommitLines(verFile) :
                            \A j \in CommitLines(verFile) : k <= j
               IN  /\ verOut.res.ok
                   /\ Trimmed(verOut.res.commit,
                              SubSeq(lines[i], Len(CommitPrefix) + 1, Len(lines[i])))
          ELSE verOut.res = Unreadable

\* C31 witness: the first commit: line of the file holds two colons, the second
\* one is well formed with a form feed before its value and a no-break space, a
\* space and a carriage return after it, and readVersion has returned the value
\* of the second.
C31_Witness ==
    /\ verOut.op = "readVersion"
    /\ verFile = FileWith(FileOf(<<LineCommitUrl, LineCommitDef>>))
    /\ verOut.res = Recorded(<<"d","e","f","5","6","7","8">>)

\* C32: for a subsystem whose marker is readable CheckVersion returns a latest
\* version equal to the current one, so that `sync check` reports each subsystem
\* as up to date, or as an error when its marker cannot be read, and never as
\* having an update available, wherever upstream is.
C32_CheckNeverFindsUpdate ==
    [][/\ \A s \in Subsystems :
             marker[s].ok => /\ ~CheckVersion(s).err
                             /\ CheckVersion(s).current = marker[s].commit
                             /\ CheckVersion(s).latest = CheckVersion(s).current
       /\ (verOut'.op = "Check" /\ verOut' # verOut)
          => \A s \in Subsystems :
                verOut'.res[s] = IF marker[s].ok THEN "up_to_date" ELSE "error"]_vars

\* C32 witness: upstream liftbridge has moved past the commit its marker records,
\* the nats marker is gone, and the check has reported liftbridge up to date and
\* nats as an error.
C32_Witness ==
    /\ verOut.op = "Check"
    /\ marker["liftbridge"].ok
    /\ marker["liftbridge"].commit # ShortHash(head["liftbridge"])
    /\ verOut.res["liftbridge"] = "up_to_date"
    /\ verOut.res["nats"] = "error"

\* C33: whatever the interleaving of run and of a Stop that follows Start, once
\* Stop has returned a child that is running has received its interrupt, and
\* Stop has signalled only a command whose process was set.
C33_StopReachesChild ==
    /\ (svc.stop = "returned" /\ svc.child = "running") => svc.signalled
    /\ svc.signalled => (svc.cmd /\ svc.process)

\* The owner and the name of an identity split at its first '/'.
SplitsAtFirstSlash(parts, id) ==
    IF \A k \in 1..Len(id) : id[k] # "/"
    THEN parts = <<NoVer, NoVer>>
    ELSE /\ id = parts[1] \o <<"/">> \o parts[2]
         /\ \A k \in 1..Len(parts[1]) : parts[1][k] # "/"

\* An identity whose owner or name, split at the first '/', is empty.
NoOwnerOrName(id) ==
    \/ \A k \in 1..Len(id) : id[k] # "/"
    \/ id[1] = "/"
    \/ \A k \in 1..(Len(id) - 1) : id[k] # "/"

\* C34: parseRepo splits an identity at its first '/' and returns two empty
\* strings when it has none; checkRepo given an identity whose owner or name is
\* empty returns the invalid-repo error at once: it waits for no child and no
\* lookup, reads no marker, and starts and launches nothing; given any other
\* identity it does not return that error.
C34_InvalidRepoRejected ==
    [][/\ \A id \in RepoIds : SplitsAtFirstSlash(parseRepo(RepoChars(id)), RepoChars(id))
       /\ last'.op \in {"getDesiredVersion", "getTagCommit", "getLatestCommit"}
          => ~NoOwnerOrName(RepoChars(last'.repo))
       /\ last'.op = "checkRepo"
          => IF NoOwnerOrName(RepoChars(last'.repo))
             THEN /\ last'.res = "invalid_repo" /\ last'.ver = NoVer
                  /\ last'.inv = NoInvocation
                  /\ pollCur.pc = "none" /\ pollCur'.pc = "none"
                  /\ UNCHANGED <<pending, running, marker, lastKnown, sinceChange, limited>>
             ELSE last'.res # "invalid_repo"]_vars

\* C34 witness: checkRepo has rejected the identity "arcopen/", whose name is
\* empty, while an invocation it launched for a well-formed identity runs.
C34_Witness ==
    /\ last.op = "checkRepo" /\ last.repo = "arcopen/" /\ last.res = "invalid_repo"
    /\ parseRepo(RepoChars("arcopen/")) = <<<<"a","r","c","o","p","e","n">>, NoVer>>
    /\ parseRepo(RepoChars("golang/go/src"))[1] = <<"g","o","l","a","n","g">>
    /\ TotalRunning = 1

====
